---------------------------- MODULE Spec2Model ----------------------------
(***************************************************************************)
(* Model of the RAG core of gkvibebasic: the document chunker              *)
(* (home/document_processor.py), the embedding / similarity search         *)
(* (home/embedding_service.py) and the RAG service (home/rag_service.py).  *)
(*                                                                         *)
(* A text is a sequence of one-character strings.  A token is a sequence   *)
(* of bytes; every character is one byte except "k", which stands for a    *)
(* Hangul syllable that the byte-level vocabulary splits over two tokens   *)
(* ("k1" and "k2").  "R" is U+FFFD, which decode() substitutes for a byte  *)
(* sequence that is not valid UTF-8.                                       *)
(***************************************************************************)
EXTENDS Integers, Sequences, FiniteSets, TLC

(***************************************************************************)
(* Bounds of the model.                                                    *)
(***************************************************************************)
MaxLen == 4
MaxSents == 3
MaxChunkSize == 5
MaxSmallChunkSize == 2
NumWorkers == 2
MaxDocuments == 2
MaxRuns == 2

(***************************************************************************)
(* Generic helpers.                                                        *)
(***************************************************************************)
Min(a, b) == IF a <= b THEN a ELSE b

Max(a, b) == IF a >= b THEN a ELSE b

\* Python slice s[lo:hi] on 0-based positions, lo and hi already clamped.
Slice(s, lo, hi) == IF hi <= lo THEN << >> ELSE SubSeq(s, lo + 1, hi)

RECURSIVE Flatten(_)
Flatten(ss) == IF ss = << >> THEN << >> ELSE Head(ss) \o Flatten(Tail(ss))

(***************************************************************************)
(* Character classes of the regular expressions in preprocess_text and     *)
(* create_chunks.                                                          *)
(***************************************************************************)
Whitespace == {" ", "\n"}

WordChars == {"a", "k"}

Punctuation == {".", ",", "!", "?", ";", ":", "(", ")", "-"}

SentenceEnd == {".", "!", "?"}

IsSpace(c) == c \in Whitespace

\* [\w\s가-힣.,!?;:()\-]
IsAllowed(c) == c \in WordChars \cup Whitespace \cup Punctuation

(***************************************************************************)
(* preprocess_text                                                         *)
(***************************************************************************)
\* re.sub(r'\s+', ' ', text)
RECURSIVE CollapseWhitespace(_)
CollapseWhitespace(t) ==
    IF t = << >> THEN << >>
    ELSE IF IsSpace(Head(t))
         THEN IF Len(t) > 1 /\ IsSpace(t[2])
              THEN CollapseWhitespace(Tail(t))
              ELSE <<" ">> \o CollapseWhitespace(Tail(t))
         ELSE <<Head(t)>> \o CollapseWhitespace(Tail(t))

\* re.sub(r'[^\w\s가-힣.,!?;:()\-]', '', text)
StripSpecial(t) == SelectSeq(t, IsAllowed)

\* Number of leading whitespace characters of t.
RECURSIVE SpaceRun(_)
SpaceRun(t) ==
    IF t = << >> \/ ~IsSpace(Head(t)) THEN 0 ELSE 1 + SpaceRun(Tail(t))

\* Position of the last "\n" among the first n characters of t, 0 if none.
RECURSIVE LastNewline(_, _)
LastNewline(t, n) ==
    IF n = 0 THEN 0
    ELSE IF t[n] = "\n" THEN n ELSE LastNewline(t, n - 1)

\* re.sub(r'\n\s*\n', '\n', text): leftmost match, \s* greedy.
RECURSIVE CollapseBlankLines(_)
CollapseBlankLines(t) ==
    IF t = << >> THEN << >>
    ELSE IF Head(t) = "\n"
         THEN LET rest == Tail(t)
                  j    == LastNewline(rest, SpaceRun(rest))
              IN  IF j > 0
                  THEN <<"\n">> \o CollapseBlankLines(SubSeq(rest, j + 1, Len(rest)))
                  ELSE <<"\n">> \o CollapseBlankLines(rest)
         ELSE <<Head(t)>> \o CollapseBlankLines(Tail(t))

RECURSIVE LStrip(_)
LStrip(t) == IF t # << >> /\ IsSpace(Head(t)) THEN LStrip(Tail(t)) ELSE t

RECURSIVE RStrip(_)
RStrip(t) ==
    IF t # << >> /\ IsSpace(t[Len(t)]) THEN RStrip(SubSeq(t, 1, Len(t) - 1)) ELSE t

\* str.strip()
Strip(t) == RStrip(LStrip(t))

preprocess_text(t) ==
    Strip(CollapseBlankLines(StripSpecial(CollapseWhitespace(t))))

(***************************************************************************)
(* re.split(r'[.!?]\s+', processed_text): the fragments between the        *)
(* non-overlapping matches, scanned from the left; the terminator and the  *)
(* whitespace after it are dropped.                                        *)
(***************************************************************************)
RECURSIVE SplitFrom(_, _)
SplitFrom(t, cur) ==
    IF t = << >> THEN <<cur>>
    ELSE IF Head(t) \in SentenceEnd /\ SpaceRun(Tail(t)) > 0
         THEN <<cur>> \o SplitFrom(SubSeq(t, 2 + SpaceRun(Tail(t)), Len(t)), << >>)
         ELSE SplitFrom(Tail(t), Append(cur, Head(t)))

SplitSentences(t) == SplitFrom(t, << >>)

(***************************************************************************)
(* The tokenizer (tiktoken, cl100k_base) as create_chunks uses it.  Its    *)
(* pre-tokenisation attaches one leading space to the word that follows,   *)
(* a word is cut into pieces of at most PieceLen letters, a punctuation    *)
(* mark or a remaining whitespace character is a token of its own, and a   *)
(* "k" is two single-byte tokens.  decode() joins the bytes of the tokens  *)
(* and reads them as UTF-8 with errors='replace'.                          *)
(***************************************************************************)
PieceLen == 2

\* Number of leading "a" of t, at most n.
RECURSIVE LetterRun(_, _)
LetterRun(t, n) ==
    IF n = 0 \/ t = << >> \/ Head(t) # "a" THEN 0 ELSE 1 + LetterRun(Tail(t), n - 1)

\* encoding.encode(text)
RECURSIVE Encode(_)
Encode(t) ==
    IF t = << >> THEN << >>
    ELSE LET c == Head(t)
             r == Tail(t)
         IN  IF c = "k" THEN <<<<"k1">>, <<"k2">>>> \o Encode(r)
             ELSE IF c = "a"
                  THEN LET n == LetterRun(t, PieceLen)
                       IN  <<SubSeq(t, 1, n)>> \o Encode(SubSeq(t, n + 1, Len(t)))
             ELSE IF c = " " /\ r # << >> /\ Head(r) = "a"
                  THEN LET n == LetterRun(r, PieceLen)
                       IN  <<SubSeq(t, 1, n + 1)>> \o Encode(SubSeq(t, n + 2, Len(t)))
             ELSE <<<<c>>>> \o Encode(r)

\* bytes.decode('utf-8', errors='replace')
RECURSIVE Utf8Decode(_)
Utf8Decode(b) ==
    IF b = << >> THEN << >>
    ELSE IF Head(b) = "k1" /\ Len(b) > 1 /\ b[2] = "k2"
         THEN <<"k">> \o Utf8Decode(SubSeq(b, 3, Len(b)))
    ELSE IF Head(b) \in {"k1", "k2"} THEN <<"R">> \o Utf8Decode(Tail(b))
    ELSE <<Head(b)>> \o Utf8Decode(Tail(b))

\* encoding.decode(tokens)
Decode(tokens) == Utf8Decode(Flatten(tokens))

\* DocumentProcessor._get_overlap_text
_get_overlap_text(t, overlap_tokens) ==
    LET tokens == Encode(t)
    IN  IF Len(tokens) <= overlap_tokens THEN t
        ELSE Decode(SubSeq(tokens, Len(tokens) - overlap_tokens + 1, Len(tokens)))

(***************************************************************************)
(* create_chunks: the greedy packing loop.  st is the loop state           *)
(* (chunks, current_chunk, current_tokens, chunk_index).                   *)
(***************************************************************************)
ChunkData(content, index, tokens, document) ==
    [content     |-> Strip(content),
     chunk_index |-> index,
     metadata    |-> [tokens      |-> tokens,
                      document_id |-> document.id,
                      file_name   |-> document.file.name]]

\* chunks.append({...}) of the buffer that is being closed
CloseChunk(st, document) ==
    Append(st.chunks,
           ChunkData(st.current_chunk, st.chunk_index, st.current_tokens, document))

\* The buffer left empty: the sentence that closes a chunk is dropped.
StartChunkEmpty(current_chunk, sentence, sentence_tokens, document) ==
    [current_chunk |-> << >>, current_tokens |-> 0]

\* The buffer without the overlap seed: a plausible slip of the overlap branch.
StartChunkNoOverlap(current_chunk, sentence, sentence_tokens, document) ==
    [current_chunk |-> sentence, current_tokens |-> sentence_tokens]

\* The buffer that follows a closed chunk (with or without the overlap seed).
StartChunk(current_chunk, sentence, sentence_tokens, document) ==
    IF document.chunk_overlap > 0
    THEN LET overlap_text == _get_overlap_text(current_chunk, document.chunk_overlap)
             next_chunk   == overlap_text \o <<" ">> \o sentence
         IN  [current_chunk |-> next_chunk, current_tokens |-> Len(Encode(next_chunk))]
    ELSE [current_chunk |-> sentence, current_tokens |-> sentence_tokens]

\* One iteration of "for sentence in sentences".
AddSentence(st, raw, document) ==
    LET sentence        == Strip(raw)
        sentence_tokens == Len(Encode(sentence))
    IN  IF sentence = << >> THEN st
        ELSE IF st.current_tokens + sentence_tokens > document.chunk_size
                /\ st.current_chunk # << >>
        THEN LET started == StartChunk(st.current_chunk, sentence, sentence_tokens,
                                       document)
             IN  [chunks         |-> CloseChunk(st, document),
                  current_chunk  |-> started.current_chunk,
                  current_tokens |-> started.current_tokens,
                  chunk_index    |-> st.chunk_index + 1]
        ELSE [chunks         |-> st.chunks,
              current_chunk  |-> IF st.current_chunk # << >>
                                 THEN st.current_chunk \o <<".", " ">> \o sentence
                                 ELSE sentence,
              current_tokens |-> st.current_tokens + sentence_tokens,
              chunk_index    |-> st.chunk_index]

RECURSIVE PackSentences(_, _, _)
PackSentences(sentences, st, document) ==
    IF sentences = << >> THEN st
    ELSE PackSentences(Tail(sentences), AddSentence(st, Head(sentences), document),
                       document)

EmptyBuffer ==
    [chunks |-> << >>, current_chunk |-> << >>, current_tokens |-> 0, chunk_index |-> 0]

\* create_chunks without the final "if current_chunk.strip()" emission.
create_chunks_unflushed(t, document) ==
    PackSentences(SplitSentences(preprocess_text(t)), EmptyBuffer, document).chunks

create_chunks(t, document) ==
    LET st == PackSentences(SplitSentences(preprocess_text(t)), EmptyBuffer, document)
    IN  IF Strip(st.current_chunk) # << >> THEN CloseChunk(st, document) ELSE st.chunks

(***************************************************************************)
(* The embedding backend and the two similarity functions.  A vector is a  *)
(* pair of integers; a similarity is a fixed-point number with Scale units *)
(* to 1.0.  The backend (an external model) is stood for by a function     *)
(* that counts the "a" and the "k" of the text.                            *)
(***************************************************************************)
Scale == 100

\* DocumentChunk.embedding = None
NoEmbedding == << >>

RECURSIVE CountOf(_, _)
CountOf(t, c) ==
    IF t = << >> THEN 0
    ELSE (IF Head(t) = c THEN 1 ELSE 0) + CountOf(Tail(t), c)

\* The vector response.data[0].embedding of a successful get_embedding(text).
Embedding(t) == <<CountOf(t, "a"), CountOf(t, "k")>>

\* Largest r in lo..hi with r * r <= n.
RECURSIVE SqrtBetween(_, _, _)
SqrtBetween(n, lo, hi) ==
    IF lo >= hi THEN lo
    ELSE LET mid == (lo + hi + 1) \div 2
         IN  IF mid * mid <= n THEN SqrtBetween(n, mid, hi)
             ELSE SqrtBetween(n, lo, mid - 1)

\* np.dot(vec1, vec2)
Dot(v1, v2) == v1[1] * v2[1] + v1[2] * v2[2]

\* np.linalg.norm(vec), in Scale units
Norm(v) == SqrtBetween(Dot(v, v) * Scale * Scale, 0, (Dot(v, v) + 1) * Scale)

\* The L2 formula computed where the cosine is asked for.
DistanceSimilarity(vec1, vec2) ==
    (Scale * Scale) \div (Scale + Norm(<<vec1[1] - vec2[1], vec1[2] - vec2[2]>>))

\* EmbeddingService.calculate_cosine_similarity
calculate_cosine_similarity(vec1, vec2) ==
    LET dot_product == Dot(vec1, vec2)
        norm1       == Norm(vec1)
        norm2       == Norm(vec2)
    IN  IF norm1 = 0 \/ norm2 = 0 THEN 0
        ELSE (dot_product * Scale * Scale * Scale) \div (norm1 * norm2)

\* EmbeddingService.calculate_l2_similarity
calculate_l2_similarity(vec1, vec2) ==
    LET l2_distance == Norm(<<vec1[1] - vec2[1], vec1[2] - vec2[2]>>)
    IN  (Scale * Scale) \div (Scale + l2_distance)

(***************************************************************************)
(* Python list operations of the search.                                   *)
(***************************************************************************)
\* The truncation left out.
Untruncated(lst, k) == lst

\* The sort left out.
Unsorted(lst) == lst

\* lst[:k]
Truncate(lst, k) ==
    IF k >= 0 THEN SubSeq(lst, 1, Min(k, Len(lst)))
    ELSE SubSeq(lst, 1, Max(0, Len(lst) + k))

\* The insertion that puts r in front of the entries of equal similarity.
RECURSIVE InsertBeforeEqual(_, _)
InsertBeforeEqual(lst, r) ==
    IF lst = << >> THEN <<r>>
    ELSE IF Head(lst).similarity > r.similarity
         THEN <<Head(lst)>> \o InsertBeforeEqual(Tail(lst), r)
         ELSE <<r>> \o lst

\* Insert r into the descending list lst behind the entries that are not
\* smaller: entries of equal similarity keep their order of arrival.
RECURSIVE InsertDescending(_, _)
InsertDescending(lst, r) ==
    IF lst = << >> THEN <<r>>
    ELSE IF Head(lst).similarity >= r.similarity
         THEN <<Head(lst)>> \o InsertDescending(Tail(lst), r)
         ELSE <<r>> \o lst

\* lst.sort(key=lambda x: x['similarity'], reverse=True): a stable sort.
RECURSIVE SortBySimilarity(_)
SortBySimilarity(lst) ==
    IF lst = << >> THEN << >>
    ELSE InsertDescending(SortBySimilarity(SubSeq(lst, 1, Len(lst) - 1)), lst[Len(lst)])

(***************************************************************************)
(* generate_chunk_embeddings, search_similar_chunks and                    *)
(* search_multiple_documents.  failing is the set of chunk ids for which   *)
(* get_embedding raises, query_failing the set of documents during whose   *)
(* search get_embedding(query) raises.                                     *)
(***************************************************************************)
\* Every chunk taken as embedded, a failed one too.
EveryChunk(document_chunks, failing) == document_chunks

\* The chunks of document_chunks that end up in the returned mapping.
Embedded(document_chunks, failing) ==
    SelectSeq(document_chunks,
              LAMBDA c : c.embedding # NoEmbedding \/ c.id \notin failing)

\* embeddings[chunk.id] of generate_chunk_embeddings
ChunkEmbedding(chunk) ==
    IF chunk.embedding # NoEmbedding THEN chunk.embedding ELSE Embedding(chunk.content)

\* No vector saved.
NothingSaved(document_chunks, failing) == {}

\* The rows generate_chunk_embeddings saves: the chunks it computed a
\* vector for.
SavedChunks(document_chunks, failing) ==
    {[document_chunks[k] EXCEPT !.embedding = Embedding(document_chunks[k].content)] :
        k \in {j \in DOMAIN document_chunks :
                  /\ document_chunks[j].embedding = NoEmbedding
                  /\ document_chunks[j].id \notin failing}}

Similarity(query_embedding, chunk, similarity_method) ==
    IF similarity_method = "l2"
    THEN calculate_l2_similarity(query_embedding, ChunkEmbedding(chunk))
    ELSE calculate_cosine_similarity(query_embedding, ChunkEmbedding(chunk))

\* search_similar_chunks when get_embedding(query) succeeds.
search_similar_chunks(query, document_chunks, top_k, similarity_method, failing) ==
    LET query_embedding == Embedding(query)
        scored          == Embedded(document_chunks, failing)
        similarities    == [k \in DOMAIN scored |->
                               [chunk      |-> [scored[k] EXCEPT
                                                  !.embedding = ChunkEmbedding(scored[k])],
                                similarity |-> Similarity(query_embedding, scored[k],
                                                          similarity_method),
                                content    |-> scored[k].content,
                                metadata   |-> scored[k].metadata]]
    IN  Truncate(SortBySimilarity(similarities), top_k)

(***************************************************************************)
(* State.                                                                  *)
(*   document, text, chunks, cstate: one call of                           *)
(*     DocumentProcessor(document).create_chunks(text).                    *)
(*   Document, DocumentChunk: the two database tables; a Document row is   *)
(*     Document[id], a DocumentChunk row carries its own id.               *)
(*   next_chunk_id: the auto-increment key of DocumentChunk.               *)
(*   req: the requests being served, one per worker, each with the local   *)
(*     variables of its handler and its position in it.                    *)
(*   response: what the step just taken returned to its caller, if it     *)
(*     ended a request.                                                    *)
(*   runs: number of processing runs, or of searches, started so far.      *)
(*   ChatMessage: the table of chat messages, each with the documents its  *)
(*     selected_documents relation links to it.                            *)
(*   llm_prompt: the prompt last handed to LLMService.send_message.        *)
(*   UserSetting: the ask settings each user has saved.                    *)
(*   upload_settings: the upload settings each user has saved.             *)
(***************************************************************************)
VARIABLES document, text, chunks, cstate,
          Document, DocumentChunk, next_chunk_id, req, response, runs,
          ChatMessage, llm_prompt, UserSetting, upload_settings

chunker_vars == <<document, text, chunks, cstate>>

db_vars == <<Document, DocumentChunk, next_chunk_id>>

proc_vars == <<Document, DocumentChunk, next_chunk_id, req, response, runs>>

chat_vars == <<ChatMessage, llm_prompt, UserSetting, upload_settings>>

\* LLMService.send_message has not been called.
NoPrompt == [sent |-> FALSE]

Users == {"u1", "u2"}

\* UserSetting.get_ask_settings() of a user who has saved none.
NoAskSettings == [saved |-> FALSE]

\* UserSetting.get_upload_settings() of a user who has saved none.
NoUploadSettings == [saved |-> FALSE]

vars == <<document, text, chunks, cstate,
          Document, DocumentChunk, next_chunk_id, req, response, runs,
          ChatMessage, llm_prompt, UserSetting, upload_settings>>

(***************************************************************************)
(* Inputs of the chunker: every text of at most MaxLen characters, and     *)
(* the texts of at most MaxSents sentences joined by ". ".                 *)
(***************************************************************************)
Alphabet == {"a", "k", " ", "\n", ".", "#"}

RECURSIVE TextsOfLen(_)
TextsOfLen(n) ==
    IF n = 0 THEN {<< >>}
    ELSE {Append(t, c) : t \in TextsOfLen(n - 1), c \in Alphabet}

ShortTexts == UNION {TextsOfLen(n) : n \in 0..MaxLen}

Sentences == {<<"a">>, <<"a", " ", "a">>, <<"a", " ", "a", " ", "a">>, <<"k">>}

RECURSIVE SentenceTextsOfLen(_)
SentenceTextsOfLen(n) ==
    IF n = 1 THEN Sentences
    ELSE {t \o <<".", " ">> \o s : t \in SentenceTextsOfLen(n - 1), s \in Sentences}

SentenceTexts == UNION {SentenceTextsOfLen(n) : n \in 1..MaxSents}

\* Document as DocumentProcessor reads it: id, file name, chunking settings.
ChunkerDocument(size, overlap) ==
    [id |-> 1, file |-> [name |-> "f1.txt"], chunk_size |-> size,
     chunk_overlap |-> overlap]

ChunkInit ==
    /\ \/ /\ text \in ShortTexts
          /\ \E size \in 1..MaxSmallChunkSize : \E overlap \in 0..(size - 1) :
                document = ChunkerDocument(size, overlap)
       \/ /\ text \in SentenceTexts
          /\ \E size \in 1..MaxChunkSize : \E overlap \in 0..(size - 1) :
                document = ChunkerDocument(size, overlap)
    /\ chunks = << >>
    /\ cstate = "ready"
    /\ Document = << >>
    /\ DocumentChunk = {}
    /\ next_chunk_id = 1
    /\ req = << >>
    /\ response = << >>
    /\ runs = 0
    /\ ChatMessage = {}
    /\ llm_prompt = NoPrompt
    /\ UserSetting = [u \in Users |-> NoAskSettings]
    /\ upload_settings = [u \in Users |-> NoUploadSettings]

\* chunks = self.create_chunks(text)
CreateChunks ==
    /\ cstate = "ready"
    /\ chunks' = create_chunks(text, document)
    /\ cstate' = "done"
    /\ UNCHANGED <<document, text>>
    /\ UNCHANGED <<proc_vars, chat_vars>>

ChunkNext == CreateChunks

SpecChunk == ChunkInit /\ [][ChunkNext]_vars

(***************************************************************************)
(* Properties of create_chunks (checked under SpecChunk).                  *)
(***************************************************************************)
IsPrefix(p, t) == Len(p) <= Len(t) /\ SubSeq(t, 1, Len(p)) = p

\* The non-empty sentences of the preprocessed input, in order.
SourceSentences ==
    LET stripped == [i \in DOMAIN SplitSentences(preprocess_text(text)) |->
                        Strip(SplitSentences(preprocess_text(text))[i])]
    IN  SelectSeq(stripped, LAMBDA f : f # << >>)

\* The text of the last n tokens of t.
TokenTail(t, n) ==
    LET tokens == Encode(t)
    IN  Decode(SubSeq(tokens, Max(1, Len(tokens) - n + 1), Len(tokens)))

\* C1: the chunk_index values of the returned list are exactly 0..n-1 in
\* emission order, every content is non-empty, and the list is non-empty
\* whenever the preprocessed text is non-empty.
C1_ChunkIndexContiguous ==
    cstate = "done" =>
        /\ \A i \in 1..Len(chunks) :
              chunks[i].chunk_index = i - 1 /\ chunks[i].content # << >>
        /\ preprocess_text(text) # << >> => Len(chunks) >= 1

C1_Witness ==
    /\ cstate = "done"
    /\ Len(chunks) >= 3
    /\ document.chunk_overlap > 0

\* C2: the recorded token count of a chunk is at most chunk_size, unless the
\* chunk is one source sentence whose own token count exceeds chunk_size.
C2_TokensWithinChunkSize ==
    cstate = "done" =>
        \A i \in 1..Len(chunks) :
            \/ chunks[i].metadata.tokens <= document.chunk_size
            \/ \E j \in 1..Len(SourceSentences) :
                  /\ chunks[i].content = SourceSentences[j]
                  /\ Len(Encode(SourceSentences[j])) > document.chunk_size

\* The scenario of C3 in the model's units: three sentences of 3/5 of
\* chunk_size each (600 of 1000) and an overlap of 1/5 of chunk_size (200).
C3_Scenario ==
    /\ cstate = "done"
    /\ Len(SourceSentences) = 3
    /\ \A j \in 1..3 : 5 * Len(Encode(SourceSentences[j])) = 3 * document.chunk_size
    /\ 5 * document.chunk_overlap = document.chunk_size

\* Chunk i+1 is the overlap tail of chunk i followed by sentence i+1.
BeginsWithOverlapTail(i) ==
    chunks[i + 1].content =
        Strip(TokenTail(chunks[i].content, document.chunk_overlap)
              \o <<" ">> \o SourceSentences[i + 1])

\* C3 as stated: the scenario gives exactly 2 chunks, the second beginning
\* with the overlap tail of the first.
C3_ScenarioTwoChunks ==
    C3_Scenario => Len(chunks) = 2 /\ BeginsWithOverlapTail(1)

\* C3 as amended: the scenario gives exactly 3 chunks, one per sentence, and
\* the second and the third chunk begin with the overlap tail of the chunk
\* before them.
C3_ScenarioThreeChunks ==
    C3_Scenario =>
        /\ Len(chunks) = 3
        /\ BeginsWithOverlapTail(1)
        /\ BeginsWithOverlapTail(2)

C3_Witness == C3_Scenario /\ Len(chunks) = 3 /\ chunks[2].metadata.tokens > chunks[1].metadata.tokens

(***************************************************************************)
(* The database and the requests that process documents.  Every ORM call   *)
(* is its own transaction (autocommit), so a handler is one step per ORM   *)
(* call; what a handler computes between two calls belongs to the step of  *)
(* the call before it.                                                     *)
(***************************************************************************)
\* Users are interchangeable: the one who uploads first is called u1.
FirstUser == "u1"

Workers == 1..NumWorkers

\* The uploaded files: two sentences, only special characters, only
\* whitespace.
UploadFiles ==
    {[name |-> "two.txt",   text |-> <<"a", ".", " ", "a">>],
     [name |-> "signs.txt", text |-> <<"#">>],
     [name |-> "blank.txt", text |-> <<" ">>]}

\* The chunking settings upload_document copies from the user's settings.
UploadSettings == {[chunk_size |-> 1, chunk_overlap |-> 0]}

NoDocument == [id |-> 0]

IdleReq ==
    [kind |-> "idle", pc |-> "idle", user |-> "", document |-> NoDocument,
     chunks |-> << >>, loaded |-> << >>, i |-> 0, prior |-> {}]

\* DocumentChunk.objects.filter(document=d)
ChunksOf(d) == {c \in DocumentChunk : c.document = d}

\* A queryset of chunks as a list, in Meta.ordering (document, chunk_index).
RECURSIVE OrderByChunkIndex(_)
OrderByChunkIndex(rows) ==
    IF rows = {} THEN << >>
    ELSE LET first == CHOOSE c \in rows :
                          \A o \in rows : <<c.chunk_index, c.id>> = <<o.chunk_index, o.id>>
                                          \/ c.chunk_index < o.chunk_index
                                          \/ (c.chunk_index = o.chunk_index /\ c.id < o.id)
         IN  <<first>> \o OrderByChunkIndex(rows \ {first})

\* A request is served by the first worker that is free.
Free(w) ==
    /\ req[w].kind = "idle"
    /\ \A v \in Workers : v < w => req[v].kind # "idle"

\* Document.objects.get(id=document_id, user=user) finds a row.
Owns(user, d) == d \in DOMAIN Document /\ Document[d].user = user

\* The instance Document.objects.get returns.
LoadDocument(d) ==
    [id                |-> d,
     user              |-> Document[d].user,
     file              |-> Document[d].file,
     chunk_size        |-> Document[d].chunk_size,
     chunk_overlap     |-> Document[d].chunk_overlap,
     is_processed      |-> Document[d].is_processed,
     processing_status |-> Document[d].processing_status,
     total_chunks      |-> Document[d].total_chunks]

\* document.save(): every field of the instance is written to its row.
SaveDocument(doc) ==
    [Document EXCEPT ![doc.id] =
        [user              |-> doc.user,
         file              |-> doc.file,
         chunk_size        |-> doc.chunk_size,
         chunk_overlap     |-> doc.chunk_overlap,
         is_processed      |-> doc.is_processed,
         processing_status |-> doc.processing_status,
         total_chunks      |-> doc.total_chunks]]

\* chunk.save(): UPDATE of the row with the instance's key, INSERT when no
\* such row is left.
SaveChunk(row) == {c \in DocumentChunk : c.id # row.id} \cup {row}

\* unique_together = ['document', 'chunk_index']
UniqueConflict(d, index, id) ==
    \E c \in DocumentChunk : c.document = d /\ c.chunk_index = index /\ c.id # id

\* No request ended in the step just taken.
NoResponse == [kind |-> "none"]

Respond(r) == response' = r

Silent == response' = NoResponse

NotFound(kind) == [kind |-> kind, success |-> FALSE, message |-> "not found"]

ProcInit ==
    /\ document = ChunkerDocument(1, 0)
    /\ text = << >>
    /\ chunks = << >>
    /\ cstate = "unused"
    /\ Document = << >>
    /\ DocumentChunk = {}
    /\ next_chunk_id = 1
    /\ req = [w \in Workers |-> IdleReq]
    /\ response = NoResponse
    /\ runs = 0
    /\ ChatMessage = {}
    /\ llm_prompt = NoPrompt
    /\ UserSetting = [u \in Users |-> NoAskSettings]
    /\ upload_settings = [u \in Users |-> NoUploadSettings]

\* views.upload_document: Document.objects.create(..., processing_status=
\* 'pending'), then rag_service.process_document_for_rag(document.id).
UploadDocument(w, u, file, settings) ==
    /\ Free(w)
    /\ Len(Document) < MaxDocuments
    /\ Document = << >> => u = FirstUser
    /\ runs < MaxRuns
    /\ Document' = Append(Document,
                          [user              |-> u,
                           file              |-> file,
                           chunk_size        |-> settings.chunk_size,
                           chunk_overlap     |-> settings.chunk_overlap,
                           is_processed      |-> FALSE,
                           processing_status |-> "pending",
                           total_chunks      |-> 0])
    /\ req' = [req EXCEPT ![w] = [IdleReq EXCEPT !.kind = "upload", !.pc = "get",
                                                 !.user = u,
                                                 !.document = [id |-> Len(Document) + 1]]]
    /\ runs' = runs + 1
    /\ Silent
    /\ UNCHANGED <<DocumentChunk, next_chunk_id>>
    /\ UNCHANGED <<chunker_vars, chat_vars>>

\* RAGService.process_document_for_rag, called by upload_document:
\* Document.objects.get(id=document_id, user=self.user).
GetUploaded(w) ==
    /\ req[w].pc = "get"
    /\ req' = [req EXCEPT ![w].document = LoadDocument(req[w].document.id),
                          ![w].pc = "mark"]
    /\ Silent
    /\ UNCHANGED <<db_vars, runs>>
    /\ UNCHANGED <<chunker_vars, chat_vars>>

\* views.process_document_for_rag -> RAGService.process_document_for_rag:
\* Document.objects.get(id=document_id, user=self.user).
ProcessRequest(w, u, d) ==
    /\ Free(w)
    /\ runs < MaxRuns
    /\ runs' = runs + 1
    /\ IF Owns(u, d)
       THEN /\ req' = [req EXCEPT ![w] = [IdleReq EXCEPT !.kind = "process",
                                                         !.pc = "mark", !.user = u,
                                                         !.document = LoadDocument(d)]]
            /\ Silent
       ELSE /\ Respond(NotFound("process"))
            /\ UNCHANGED req
    /\ UNCHANGED db_vars
    /\ UNCHANGED <<chunker_vars, chat_vars>>

\* DocumentProcessor.process_document up to the chunking: the status is
\* saved as 'processing', then the text is extracted (extract_text returns
\* the text or raises) and, unless it is blank, chunked.
MarkProcessing(w, extracted) ==
    /\ req[w].pc = "mark"
    /\ LET doc  == [req[w].document EXCEPT !.processing_status = "processing"]
           file == doc.file
           ok   == extracted /\ Strip(file.text) # << >>
       IN  /\ Document' = SaveDocument(doc)
           /\ req' = [req EXCEPT ![w].document = doc,
                                 ![w].prior = ChunksOf(doc.id),
                                 ![w].chunks = IF ok THEN create_chunks(file.text, doc)
                                               ELSE << >>,
                                 ![w].pc = IF ok THEN "delete" ELSE "except"]
    /\ Silent
    /\ UNCHANGED <<DocumentChunk, next_chunk_id, runs>>
    /\ UNCHANGED <<chunker_vars, chat_vars>>

\* DocumentChunk.objects.filter(document=self.document).delete()
DeleteOldChunks(w) ==
    /\ req[w].pc = "delete"
    /\ DocumentChunk' = DocumentChunk \ ChunksOf(req[w].document.id)
    /\ req' = [req EXCEPT ![w].pc = IF req[w].chunks = << >> THEN "complete" ELSE "insert",
                          ![w].i = 1]
    /\ Silent
    /\ UNCHANGED <<Document, next_chunk_id, runs>>
    /\ UNCHANGED <<chunker_vars, chat_vars>>

\* One DocumentChunk.objects.create(...) of the loop: the row is inserted,
\* or the insert raises (the unique constraint, or the database fails).
InsertChunk(w) ==
    /\ req[w].pc = "insert"
    /\ LET d    == req[w].document.id
           data == req[w].chunks[req[w].i]
       IN  \/ /\ ~UniqueConflict(d, data.chunk_index, 0)
              /\ DocumentChunk' = DocumentChunk \cup
                     {[id          |-> next_chunk_id,
                       document    |-> d,
                       chunk_index |-> data.chunk_index,
                       content     |-> data.content,
                       metadata    |-> data.metadata,
                       embedding   |-> NoEmbedding]}
              /\ next_chunk_id' = next_chunk_id + 1
              /\ req' = [req EXCEPT ![w].i = req[w].i + 1,
                                    ![w].pc = IF req[w].i = Len(req[w].chunks)
                                              THEN "complete" ELSE "insert"]
           \/ /\ UniqueConflict(d, data.chunk_index, 0)
              /\ req' = [req EXCEPT ![w].pc = "except"]
              /\ UNCHANGED <<DocumentChunk, next_chunk_id>>
           \/ /\ req' = [req EXCEPT ![w].pc = "except"]
              /\ UNCHANGED <<DocumentChunk, next_chunk_id>>
    /\ Silent
    /\ UNCHANGED <<Document, runs>>
    /\ UNCHANGED <<chunker_vars, chat_vars>>

\* The save at the end of the try block with total_chunks left as loaded.
CompleteKeepingCount(w) ==
    /\ req[w].pc = "complete"
    /\ LET doc == [req[w].document EXCEPT !.is_processed = TRUE,
                                          !.processing_status = "completed"]
       IN  /\ Document' = SaveDocument(doc)
           /\ req' = [req EXCEPT ![w].document = doc, ![w].pc = "load"]
    /\ Silent
    /\ UNCHANGED <<DocumentChunk, next_chunk_id, runs>>
    /\ UNCHANGED <<chunker_vars, chat_vars>>

\* The end of the try block of process_document: is_processed, 'completed'
\* and total_chunks are saved.
CompleteProcessing(w) ==
    /\ req[w].pc = "complete"
    /\ LET doc == [req[w].document EXCEPT !.is_processed = TRUE,
                                          !.processing_status = "completed",
                                          !.total_chunks = Len(req[w].chunks)]
       IN  /\ Document' = SaveDocument(doc)
           /\ req' = [req EXCEPT ![w].document = doc, ![w].pc = "load"]
    /\ Silent
    /\ UNCHANGED <<DocumentChunk, next_chunk_id, runs>>
    /\ UNCHANGED <<chunker_vars, chat_vars>>

\* The except block of process_document: 'failed' is saved and the failure
\* returned, which process_document_for_rag returns as it is.
FailProcessing(w) ==
    /\ req[w].pc = "except"
    /\ LET doc == [req[w].document EXCEPT !.processing_status = "failed"]
       IN  Document' = SaveDocument(doc)
    /\ Respond([kind |-> "process", success |-> FALSE, message |-> "processing failed",
                 document_id |-> req[w].document.id, prior |-> req[w].prior])
    /\ req' = [req EXCEPT ![w] = IdleReq]
    /\ UNCHANGED <<DocumentChunk, next_chunk_id, runs>>
    /\ UNCHANGED <<chunker_vars, chat_vars>>

Processed(w) ==
    [kind |-> "process", success |-> TRUE, message |-> "processed",
     document_id |-> req[w].document.id, total_chunks |-> Len(req[w].chunks)]

\* The except block of process_document_for_rag: the failure is returned,
\* nothing is saved.
Failed(w) ==
    [kind |-> "process", success |-> FALSE, message |-> "error",
     document_id |-> req[w].document.id, prior |-> req[w].prior]

\* process_document_for_rag after a successful process_document:
\* list(DocumentChunk.objects.filter(document=document)), which returns the
\* rows or raises a database error.
LoadChunks(w) ==
    /\ req[w].pc = "load"
    /\ \/ LET loaded == OrderByChunkIndex(ChunksOf(req[w].document.id))
          IN  IF loaded = << >>
              THEN /\ Respond(Processed(w))
                   /\ req' = [req EXCEPT ![w] = IdleReq]
              ELSE /\ req' = [req EXCEPT ![w].loaded = loaded, ![w].i = 1,
                                         ![w].pc = "embed"]
                   /\ Silent
       \/ /\ Respond(Failed(w))
          /\ req' = [req EXCEPT ![w] = IdleReq]
    /\ UNCHANGED <<db_vars, runs>>
    /\ UNCHANGED <<chunker_vars, chat_vars>>

\* The request after one iteration of generate_chunk_embeddings.
AfterEmbedding(w, loaded) ==
    IF req[w].i = Len(req[w].loaded)
    THEN /\ Respond(Processed(w))
         /\ req' = [req EXCEPT ![w] = IdleReq]
    ELSE /\ req' = [req EXCEPT ![w].loaded = loaded, ![w].i = req[w].i + 1]
         /\ Silent

\* One iteration of the loop of generate_chunk_embeddings: a stored
\* embedding is reused; otherwise get_embedding is called and, unless it
\* raises, the vector is set on the chunk and the chunk is saved (a save
\* that raises is skipped like a failed call).
EmbedChunk(w) ==
    /\ req[w].pc = "embed"
    /\ LET chunk == req[w].loaded[req[w].i]
       IN  IF chunk.embedding # NoEmbedding
           THEN /\ AfterEmbedding(w, req[w].loaded)
                /\ UNCHANGED DocumentChunk
           ELSE \/ /\ AfterEmbedding(w, req[w].loaded)
                   /\ UNCHANGED DocumentChunk
                \/ LET embedding == Embedding(chunk.content)
                       saved     == [chunk EXCEPT !.embedding = embedding]
                       loaded    == [req[w].loaded EXCEPT ![req[w].i] = saved]
                   IN  /\ AfterEmbedding(w, loaded)
                       /\ DocumentChunk' =
                             IF UniqueConflict(saved.document, saved.chunk_index,
                                               saved.id)
                             THEN DocumentChunk
                             ELSE SaveChunk(saved)
    /\ UNCHANGED <<Document, next_chunk_id, runs>>
    /\ UNCHANGED <<chunker_vars, chat_vars>>

\* views.delete_document_rag_data -> RAGService.delete_document_data:
\* Document.objects.get(id=document_id, user=self.user).
DeleteRequest(w, u, d) ==
    /\ Free(w)
    /\ IF Owns(u, d)
       THEN /\ req' = [req EXCEPT ![w] = [IdleReq EXCEPT !.kind = "delete",
                                                         !.pc = "delete_chunks",
                                                         !.user = u,
                                                         !.document = LoadDocument(d)]]
            /\ Silent
       ELSE /\ Respond(NotFound("delete"))
            /\ UNCHANGED req
    /\ UNCHANGED <<db_vars, runs>>
    /\ UNCHANGED <<chunker_vars, chat_vars>>

\* The delete without its filter: the chunks of every document go.
DeleteAllChunks(w) ==
    /\ req[w].pc = "delete_chunks"
    /\ DocumentChunk' = {}
    /\ req' = [req EXCEPT ![w].pc = "reset"]
    /\ Silent
    /\ UNCHANGED <<Document, next_chunk_id, runs>>
    /\ UNCHANGED <<chunker_vars, chat_vars>>

\* delete_document_data: DocumentChunk.objects.filter(document=document).delete()
DeleteDataChunks(w) ==
    /\ req[w].pc = "delete_chunks"
    /\ DocumentChunk' = DocumentChunk \ ChunksOf(req[w].document.id)
    /\ req' = [req EXCEPT ![w].pc = "reset"]
    /\ Silent
    /\ UNCHANGED <<Document, next_chunk_id, runs>>
    /\ UNCHANGED <<chunker_vars, chat_vars>>

\* delete_document_data: the status fields are reset and saved.
ResetDocument(w) ==
    /\ req[w].pc = "reset"
    /\ LET doc == [req[w].document EXCEPT !.is_processed = FALSE,
                                          !.processing_status = "pending",
                                          !.total_chunks = 0]
       IN  Document' = SaveDocument(doc)
    /\ Respond([kind |-> "delete", success |-> TRUE, message |-> "deleted",
                 document_id |-> req[w].document.id])
    /\ req' = [req EXCEPT ![w] = IdleReq]
    /\ UNCHANGED <<DocumentChunk, next_chunk_id, runs>>
    /\ UNCHANGED <<chunker_vars, chat_vars>>

\* A processing run of document d has deleted the chunks of an earlier run
\* and has not inserted all of its own yet.
MidReplacement(d) ==
    \E w \in Workers :
        /\ req[w].pc = "insert"
        /\ req[w].document.id = d
        /\ req[w].prior # {}

\* RAGService.get_document_chunks: the chunks of the caller's document in
\* chunk_index order (torn records whether the read fell into a replacement).
GetDocumentChunks(u, d) ==
    /\ response' =
          IF Owns(u, d)
          THEN LET rows == OrderByChunkIndex(ChunksOf(d))
               IN  [kind          |-> "chunks",
                    success       |-> TRUE,
                    message       |-> "chunks",
                    document_id   |-> d,
                    document_name |-> Document[d].file.name,
                    total_chunks  |-> Len(rows),
                    chunks        |-> [k \in DOMAIN rows |->
                                          [id            |-> rows[k].id,
                                           chunk_index   |-> rows[k].chunk_index,
                                           content       |-> rows[k].content,
                                           metadata      |-> rows[k].metadata,
                                           has_embedding |-> rows[k].embedding # NoEmbedding]],
                    torn          |-> MidReplacement(d)]
          ELSE NotFound("chunks")
    /\ UNCHANGED <<db_vars, req, runs>>
    /\ UNCHANGED <<chunker_vars, chat_vars>>

Next ==
    \/ \E w \in Workers, u \in Users, file \in UploadFiles, settings \in UploadSettings :
          UploadDocument(w, u, file, settings)
    \/ \E w \in Workers : GetUploaded(w)
    \/ \E w \in Workers, u \in Users, d \in 1..MaxDocuments : ProcessRequest(w, u, d)
    \/ \E w \in Workers, extracted \in BOOLEAN : MarkProcessing(w, extracted)
    \/ \E w \in Workers : DeleteOldChunks(w)
    \/ \E w \in Workers : InsertChunk(w)
    \/ \E w \in Workers : CompleteProcessing(w)
    \/ \E w \in Workers : FailProcessing(w)
    \/ \E w \in Workers : LoadChunks(w)
    \/ \E w \in Workers : EmbedChunk(w)
    \/ \E w \in Workers, u \in Users, d \in 1..MaxDocuments : DeleteRequest(w, u, d)
    \/ \E w \in Workers : DeleteDataChunks(w)
    \/ \E w \in Workers : ResetDocument(w)
    \/ \E u \in Users, d \in 1..MaxDocuments : GetDocumentChunks(u, d)

Init == ProcInit

Spec == Init /\ [][Next]_vars

(***************************************************************************)
(* Properties of document processing (checked under Spec).                 *)
(***************************************************************************)
\* Worker w is inside process_document or the embedding pass after it.
InRun(w) == req[w].pc \in {"delete", "insert", "complete", "except", "load", "embed"}

\* C4: at most one processing run is active per document at any time.
C4_OneRunPerDocument ==
    \A v, w \in Workers :
        (v # w /\ InRun(v) /\ InRun(w)) => req[v].document.id # req[w].document.id

\* C5: when a processing run fails, the document's status is 'failed' and
\* the chunks stored for it are exactly those stored before the run started.
C5_FailureKeepsChunks ==
    (response.kind = "process" /\ response.message = "processing failed") =>
        /\ Document[response.document_id].processing_status = "failed"
        /\ ChunksOf(response.document_id) = response.prior

\* C6: no read of a document's chunks falls between the delete of the old
\* chunks and the last insert of the new ones.
C6_AtomicReplacement ==
    (response.kind = "chunks" /\ response.success) => ~response.torn

\* C7: a document whose text is empty after preprocessing is never
\* 'completed', and its processing run never returns success.
C7_EmptyTextFails ==
    /\ \A d \in DOMAIN Document :
          preprocess_text(Document[d].file.text) = << >>
              => Document[d].processing_status # "completed"
    /\ (response.kind = "process" /\ response.success) =>
          preprocess_text(Document[response.document_id].file.text) # << >>


(***************************************************************************)
(* Retrieval: EmbeddingService.search_multiple_documents and the two       *)
(* RAGService operations built on it.  documents is the list of document   *)
(* ids the queryset yields.                                                *)
(***************************************************************************)
MaxSearchChunks == 3
MaxLazyChunks == 2
MaxTopK == 3

\* Defaults of search_multiple_documents and search_relevant_chunks.
DefaultTopKPerDoc == 3
DefaultTopK == 5

Queries == {<<"a">>}
SimilarityMethods == {"cosine", "l2"}

\* np.dot(vec1, vec2) and vec1 - vec2 raise ValueError when a chunk's vector
\* has not the dimension of the query's.
DimensionError(query, document_chunks, failing) ==
    LET scored == Embedded(document_chunks, failing)
    IN  \E k \in DOMAIN scored : Len(ChunkEmbedding(scored[k])) # Len(Embedding(query))

\* search_similar_chunks(query, list(chunks of d), ...) raises.
SearchRaises(query, d, query_failing, failing) ==
    \/ d \in query_failing
    \/ DimensionError(query, OrderByChunkIndex(ChunksOf(d)), failing)

\* The results search_multiple_documents gets from one document: none when
\* it has no chunks or its search raises.
DocumentResults(query, d, top_k_per_doc, similarity_method, query_failing, failing) ==
    LET document_chunks == OrderByChunkIndex(ChunksOf(d))
        doc_results     == search_similar_chunks(query, document_chunks, top_k_per_doc,
                                                 similarity_method, failing)
    IN  IF document_chunks = << >> \/ SearchRaises(query, d, query_failing, failing)
        THEN << >>
        ELSE [k \in DOMAIN doc_results |->
                 [chunk         |-> doc_results[k].chunk,
                  similarity    |-> doc_results[k].similarity,
                  content       |-> doc_results[k].content,
                  metadata      |-> doc_results[k].metadata,
                  document_id   |-> d,
                  document_name |-> Document[d].file.name,
                  document_user |-> Document[d].user]]

\* all_results when the first search that raises ends the loop.
RECURSIVE AllResultsUntilError(_, _, _, _, _, _)
AllResultsUntilError(query, documents, top_k_per_doc, similarity_method, query_failing, failing) ==
    IF documents = << >> THEN << >>
    ELSE IF SearchRaises(query, Head(documents), query_failing, failing) THEN << >>
    ELSE DocumentResults(query, Head(documents), top_k_per_doc, similarity_method,
                         query_failing, failing)
         \o AllResultsUntilError(query, Tail(documents), top_k_per_doc, similarity_method,
                                 query_failing, failing)

\* all_results at the end of the loop over documents.
RECURSIVE AllResults(_, _, _, _, _, _)
AllResults(query, documents, top_k_per_doc, similarity_method, query_failing, failing) ==
    IF documents = << >> THEN << >>
    ELSE DocumentResults(query, Head(documents), top_k_per_doc, similarity_method,
                         query_failing, failing)
         \o AllResults(query, Tail(documents), top_k_per_doc, similarity_method,
                       query_failing, failing)

search_multiple_documents(query, documents, top_k_per_doc, total_top_k, similarity_method, query_failing, failing) ==
    Truncate(SortBySimilarity(AllResults(query, documents, top_k_per_doc,
                                         similarity_method, query_failing, failing)),
             total_top_k)

\* The documents of the list whose search calls get_embedding(query).
Searched(documents) ==
    {documents[k] : k \in {j \in DOMAIN documents : ChunksOf(documents[j]) # {}}}

\* The chunks of the searched documents that have no stored embedding.
Unembedded(documents) ==
    {c.id : c \in {r \in DocumentChunk : /\ r.document \in Searched(documents)
                                         /\ r.embedding = NoEmbedding}}

\* The table after the chunk.save() calls of a search.
AfterSearch(documents, query_failing, failing) ==
    LET saved == UNION {SavedChunks(OrderByChunkIndex(ChunksOf(d)), failing) :
                           d \in Searched(documents) \ query_failing}
    IN  {c \in DocumentChunk : \A r \in saved : r.id # c.id} \cup saved

\* Document.objects.filter(id__in=selected_documents, user=user,
\* is_processed=True), in Meta.ordering ['-created_at'].
RECURSIVE NewestFirst(_)
NewestFirst(ids) ==
    IF ids = {} THEN << >>
    ELSE LET newest == CHOOSE d \in ids : \A o \in ids : o <= d
         IN  <<newest>> \o NewestFirst(ids \ {newest})

\* The filter without is_processed=True.
SelectedDocuments(user, selected_documents) ==
    NewestFirst({d \in DOMAIN Document : /\ d \in selected_documents
                                         /\ Document[d].user = user})

ProcessedDocuments(user, selected_documents) ==
    NewestFirst({d \in DOMAIN Document : /\ d \in selected_documents
                                         /\ Document[d].user = user
                                         /\ Document[d].is_processed})

\* RAGService.search_relevant_chunks
search_relevant_chunks(user, query, selected_documents, top_k, query_failing, failing) ==
    LET documents == ProcessedDocuments(user, selected_documents)
    IN  IF documents = << >> THEN << >>
        ELSE search_multiple_documents(query, documents, DefaultTopKPerDoc, top_k,
                                       "cosine", query_failing, failing)

(***************************************************************************)
(* The databases a search starts from: two documents with their chunks.    *)
(* In the first family both documents are processed and every chunk has    *)
(* its embedding stored; in the second a chunk may have no embedding yet;  *)
(* in the third the second document may belong to another user and a       *)
(* document may be unprocessed.                                            *)
(***************************************************************************)
SearchContents == {<<"k">>, <<"a", "k">>}
LazyContents == {<<"a">>}
DocumentNames == <<"d1.txt", "d2.txt">>

\* A file whose chunks, at one token per chunk, have the given contents.
RECURSIVE JoinSentences(_)
JoinSentences(contents) ==
    IF contents = << >> THEN <<"#">>
    ELSE IF Len(contents) = 1 THEN Head(contents)
    ELSE Head(contents) \o <<".", " ">> \o JoinSentences(Tail(contents))

SearchDocument(d, user, processed, contents) ==
    [user              |-> user,
     file              |-> [name |-> DocumentNames[d], text |-> JoinSentences(contents)],
     chunk_size        |-> 1,
     chunk_overlap     |-> 0,
     is_processed      |-> processed,
     processing_status |-> IF processed THEN "completed" ELSE "failed",
     total_chunks      |-> IF processed THEN Len(contents) ELSE 0]

\* Rows first..first+n-1: the chunks 0..n-1 of document d.
ChunkRows(d, first, contents, embedded) ==
    {[id          |-> first + k - 1,
      document    |-> d,
      chunk_index |-> k - 1,
      content     |-> contents[k],
      metadata    |-> [tokens      |-> Len(Encode(contents[k])),
                       document_id |-> d,
                       file_name   |-> DocumentNames[d]],
      embedding   |-> IF embedded[k] THEN Embedding(contents[k]) ELSE NoEmbedding] :
        k \in DOMAIN contents}

SearchDatabase(owner, p1, p2, c1, e1, c2, e2) ==
    /\ Document = <<SearchDocument(1, FirstUser, p1, c1),
                    SearchDocument(2, owner, p2, c2)>>
    /\ DocumentChunk = ChunkRows(1, 1, c1, e1) \cup ChunkRows(2, Len(c1) + 1, c2, e2)
    /\ next_chunk_id = Len(c1) + Len(c2) + 1

SearchInit ==
    /\ \/ \E n1 \in 0..MaxSearchChunks, n2 \in 0..MaxSearchChunks :
            \E c1 \in [1..n1 -> SearchContents], c2 \in [1..n2 -> SearchContents] :
               SearchDatabase(FirstUser, TRUE, TRUE,
                              c1, [k \in 1..n1 |-> TRUE], c2, [k \in 1..n2 |-> TRUE])
       \/ \E n1 \in 0..MaxLazyChunks, n2 \in 0..MaxLazyChunks :
            \E c1 \in [1..n1 -> LazyContents], c2 \in [1..n2 -> LazyContents],
               e1 \in [1..n1 -> BOOLEAN], e2 \in [1..n2 -> BOOLEAN] :
               SearchDatabase(FirstUser, TRUE, TRUE, c1, e1, c2, e2)
       \/ \E n1 \in 0..MaxLazyChunks, n2 \in 0..MaxLazyChunks :
            \E c1 \in [1..n1 -> LazyContents], c2 \in [1..n2 -> LazyContents],
               owner \in Users, p1 \in BOOLEAN, p2 \in BOOLEAN :
               SearchDatabase(owner, p1, p2,
                              c1, [k \in 1..n1 |-> TRUE], c2, [k \in 1..n2 |-> TRUE])
    /\ document = ChunkerDocument(1, 0)
    /\ text = << >>
    /\ chunks = << >>
    /\ cstate = "unused"
    /\ req = [w \in Workers |-> IdleReq]
    /\ response = NoResponse
    /\ runs = 0
    /\ ChatMessage = {}
    /\ llm_prompt = NoPrompt
    /\ UserSetting = [u \in Users |-> NoAskSettings]
    /\ upload_settings = [u \in Users |-> NoUploadSettings]

MaxSearches == 1

\* The ids a caller may pass for a document.
DocumentIds == 1..MaxDocuments

\* What a search returns, with its arguments, the backend failures met and
\* the chunk table it started from.  The call never raises: the loop over
\* the documents catches every exception and continues with the next one.
SearchResponse(kind, user, query, selected_documents, documents, top_k_per_doc, total_top_k, similarity_method, query_failing, failing) ==
    [kind              |-> kind,
     user              |-> user,
     query             |-> query,
     selected          |-> selected_documents,
     documents         |-> documents,
     top_k_per_doc     |-> top_k_per_doc,
     total_top_k       |-> total_top_k,
     similarity_method |-> similarity_method,
     query_failing     |-> query_failing,
     failing           |-> failing,
     candidates        |-> DocumentChunk,
     raised            |-> FALSE,
     results           |-> search_multiple_documents(query, documents, top_k_per_doc,
                                                     total_top_k, similarity_method,
                                                     query_failing, failing)]

\* EmbeddingService.search_multiple_documents(query, documents,
\* top_k_per_doc, total_top_k, similarity_method)
SearchMultipleDocuments(query, selected, top_k_per_doc, total_top_k, similarity_method) ==
    /\ runs < MaxSearches
    /\ selected \subseteq DOMAIN Document
    /\ LET documents == NewestFirst(selected)
       IN  \E query_failing \in SUBSET Searched(documents),
              failing \in SUBSET Unembedded(documents) :
              /\ Respond(SearchResponse("search", "", query, selected, documents,
                                        top_k_per_doc, total_top_k, similarity_method,
                                        query_failing, failing))
              /\ DocumentChunk' = AfterSearch(documents, query_failing, failing)
    /\ runs' = runs + 1
    /\ UNCHANGED <<Document, next_chunk_id, req>>
    /\ UNCHANGED <<chunker_vars, chat_vars>>

\* RAGService(user).search_relevant_chunks(query, selected_documents, top_k)
SearchRelevantChunks(user, query, selected_documents, top_k) ==
    /\ runs < MaxSearches
    /\ selected_documents \subseteq DOMAIN Document
    /\ LET documents == ProcessedDocuments(user, selected_documents)
       IN  \E query_failing \in SUBSET Searched(documents),
              failing \in SUBSET Unembedded(documents) :
              /\ Respond(SearchResponse("relevant", user, query, selected_documents,
                                        documents, DefaultTopKPerDoc, top_k, "cosine",
                                        query_failing, failing))
              /\ DocumentChunk' = AfterSearch(documents, query_failing, failing)
    /\ runs' = runs + 1
    /\ UNCHANGED <<Document, next_chunk_id, req>>
    /\ UNCHANGED <<chunker_vars, chat_vars>>

\* referenced_chunks_info of send_rag_message
ReferencedChunks(relevant_chunks) ==
    [k \in DOMAIN relevant_chunks |->
        [chunk_id      |-> relevant_chunks[k].chunk.id,
         document_id   |-> relevant_chunks[k].chunk.document,
         document_name |-> relevant_chunks[k].document_name,
         chunk_index   |-> relevant_chunks[k].chunk.chunk_index,
         content       |-> relevant_chunks[k].chunk.content,
         similarity    |-> relevant_chunks[k].similarity]]

RagFailure(user, selected_documents, message) ==
    [kind |-> "rag", user |-> user, selected |-> selected_documents,
     success |-> FALSE, message |-> message]

\* RAGService(user).send_rag_message(message, selected_documents); llm_ok
\* tells whether LLMService.send_message returns or raises.
SendRagMessage(user, message, selected_documents, llm_ok) ==
    /\ runs < MaxSearches
    /\ selected_documents \subseteq DOMAIN Document
    /\ LET processed_docs == ProcessedDocuments(user, selected_documents)
       IN  \E query_failing \in SUBSET Searched(processed_docs),
              failing \in SUBSET Unembedded(processed_docs) :
              LET relevant_chunks == search_relevant_chunks(user, message,
                                         selected_documents, DefaultTopK,
                                         query_failing, failing)
                  documents       == NewestFirst({d \in DOMAIN Document :
                                                     d \in selected_documents})
                  documents_info  == [k \in DOMAIN documents |->
                                         Document[documents[k]].file.name]
                  chat_message    == [id                 |-> Cardinality(ChatMessage) + 1,
                                      user               |-> user,
                                      req_content        |-> message,
                                      selected_documents |-> selected_documents,
                                      referenced_chunks  |->
                                          ReferencedChunks(relevant_chunks)]
              IN  IF processed_docs = << >>
                  THEN /\ Respond(RagFailure(user, selected_documents, "not processed"))
                       /\ UNCHANGED <<DocumentChunk, ChatMessage, llm_prompt>>
                  ELSE /\ DocumentChunk' = AfterSearch(processed_docs, query_failing,
                                                       failing)
                       /\ IF relevant_chunks = << >>
                          THEN /\ Respond(RagFailure(user, selected_documents,
                                                     "nothing relevant"))
                               /\ UNCHANGED <<ChatMessage, llm_prompt>>
                          ELSE /\ llm_prompt' =
                                     [sent           |-> TRUE,
                                      user           |-> user,
                                      query          |-> message,
                                      context        |-> ReferencedChunks(relevant_chunks),
                                      documents      |-> documents,
                                      documents_info |-> documents_info]
                               /\ IF llm_ok
                                  THEN /\ ChatMessage' = ChatMessage \cup {chat_message}
                                       /\ Respond([kind       |-> "rag",
                                                   user       |-> user,
                                                   selected   |-> selected_documents,
                                                   success    |-> TRUE,
                                                   message_id |-> chat_message.id,
                                                   referenced_chunks |->
                                                       chat_message.referenced_chunks])
                                  ELSE /\ Respond(RagFailure(user, selected_documents,
                                                             "error"))
                                       /\ UNCHANGED ChatMessage
    /\ runs' = runs + 1
    /\ UNCHANGED <<Document, next_chunk_id, req, UserSetting, upload_settings>>
    /\ UNCHANGED chunker_vars

(***************************************************************************)
(* EmbeddingService.get_chunk_context.  The returned text is a sequence of *)
(* characters like every other text of the model.                          *)
(***************************************************************************)
MaxWindow == 2

\* The ids a DocumentChunk row of the databases above can have.
ChunkIds == 1..(MaxDocuments * MaxSearchChunks)

\* The index Python gives a slice bound i of a list of n elements.
SliceIndex(n, i) == IF i < 0 THEN Max(0, n + i) ELSE Min(i, n)

\* lst[start:stop]
PySlice(lst, start, stop) ==
    Slice(lst, SliceIndex(Len(lst), start), SliceIndex(Len(lst), stop))

\* chunk_list.index(chunk), 0-based; two instances are equal when their
\* primary keys are.  -1 stands for the ValueError of a chunk not in the list.
RECURSIVE ListIndex(_, _)
ListIndex(chunk_list, chunk) ==
    IF chunk_list = << >> THEN -1
    ELSE IF Head(chunk_list).id = chunk.id THEN 0
    ELSE LET rest == ListIndex(Tail(chunk_list), chunk)
         IN  IF rest < 0 THEN -1 ELSE rest + 1

\* str(n) of a chunk_index.
Digits == <<"0", "1", "2", "3", "4", "5", "6", "7", "8", "9">>

RECURSIVE Str(_)
Str(n) == IF n < 10 THEN <<Digits[n + 1]>> ELSE Str(n \div 10) \o <<Digits[(n % 10) + 1]>>

\* f"[{ctx_chunk.chunk_index}] {ctx_chunk.content}"
ContextPart(ctx_chunk) == <<"[">> \o Str(ctx_chunk.chunk_index) \o <<"]", " ">> \o ctx_chunk.content

\* "\n\n".join(context_parts)
RECURSIVE JoinParts(_)
JoinParts(context_parts) ==
    IF context_parts = << >> THEN << >>
    ELSE IF Len(context_parts) = 1 THEN Head(context_parts)
    ELSE Head(context_parts) \o <<"\n", "\n">> \o JoinParts(Tail(context_parts))

\* The start of the slice without the clamp at 0.
start_index_unclamped(current_index, context_window) == current_index - context_window

start_index(current_index, context_window) == Max(0, current_index - context_window)

end_index(chunk_list, current_index, context_window) ==
    Min(Len(chunk_list), current_index + context_window + 1)

get_chunk_context(chunk, context_window) ==
    LET chunk_list    == OrderByChunkIndex(ChunksOf(chunk.document))
        current_index == ListIndex(chunk_list, chunk)
        context_chunks ==
            PySlice(chunk_list, start_index(current_index, context_window),
                    end_index(chunk_list, current_index, context_window))
    IN  IF current_index < 0 THEN chunk.content
        ELSE JoinParts([k \in DOMAIN context_chunks |-> ContextPart(context_chunks[k])])

\* embedding_service.get_chunk_context(chunk, context_window) for a stored
\* chunk; fresh tells whether the instance was loaded after its embedding
\* was stored.
GetChunkContext(id, fresh, context_window) ==
    /\ runs < MaxSearches
    /\ \E row \in DocumentChunk :
          /\ row.id = id
          /\ LET chunk == IF fresh THEN row ELSE [row EXCEPT !.embedding = NoEmbedding]
             IN  Respond([kind           |-> "context",
                          chunk          |-> chunk,
                          context_window |-> context_window,
                          context        |-> get_chunk_context(chunk, context_window)])
    /\ runs' = runs + 1
    /\ UNCHANGED <<db_vars, req>>
    /\ UNCHANGED <<chunker_vars, chat_vars>>

SearchNext ==
    \/ \E query \in Queries, selected \in SUBSET DocumentIds,
          top_k_per_doc \in 0..MaxTopK, total_top_k \in 0..MaxTopK,
          similarity_method \in SimilarityMethods :
          SearchMultipleDocuments(query, selected, top_k_per_doc, total_top_k,
                                  similarity_method)
    \/ \E user \in Users, query \in Queries, selected \in SUBSET DocumentIds,
          top_k \in {1, DefaultTopK} :
          SearchRelevantChunks(user, query, selected, top_k)
    \/ \E user \in Users, query \in Queries, selected \in SUBSET DocumentIds,
          llm_ok \in BOOLEAN :
          SendRagMessage(user, query, selected, llm_ok)
    \/ \E id \in ChunkIds, fresh \in BOOLEAN, context_window \in 0..MaxWindow :
          GetChunkContext(id, fresh, context_window)

SpecSearch == SearchInit /\ [][SearchNext]_vars

(***************************************************************************)
(* Properties of the retrieval.                                            *)
(***************************************************************************)
IsSearch == response.kind \in {"search", "relevant"}

\* The chunks of document d a search has a similarity for: none when the
\* query could not be embedded, else those with a stored embedding or one
\* the backend returned.
ScoredChunks(r, d) ==
    IF d \in r.query_failing THEN {}
    ELSE {c \in r.candidates : /\ c.document = d
                               /\ (c.embedding # NoEmbedding \/ c.id \notin r.failing)}

\* The results of r that come from document d.
ResultsFrom(r, d) == {k \in DOMAIN r.results : r.results[k].document_id = d}

\* Sum over the documents of min(top_k_per_doc, number of scored chunks).
RECURSIVE Shortlisted(_, _)
Shortlisted(r, documents) ==
    IF documents = << >> THEN 0
    ELSE Min(r.top_k_per_doc, Cardinality(ScoredChunks(r, Head(documents))))
         + Shortlisted(r, Tail(documents))

\* C8: the result of search_multiple_documents has at most total_top_k
\* entries and its similarities are in non-increasing order.
C8_AtMostKDescending ==
    IsSearch =>
        /\ Len(response.results) <= response.total_top_k
        /\ \A i \in DOMAIN response.results : \A j \in DOMAIN response.results :
              i < j => response.results[i].similarity >= response.results[j].similarity

\* A search that had to reorder and to cut: more candidates than
\* total_top_k, and a first result that is not the first candidate.
C8_Witness ==
    /\ response.kind = "search"
    /\ response.total_top_k >= 2
    /\ Len(response.results) = response.total_top_k
    /\ Shortlisted(response, response.documents) > response.total_top_k
    /\ response.results[1].similarity > response.results[Len(response.results)].similarity
    /\ ~(/\ response.results[1].document_id = Head(response.documents)
         /\ response.results[1].chunk.chunk_index = 0)

\* Two documents with three embedded chunks each, searched with
\* top_k_per_doc = 2 and total_top_k = 3, the query embedded both times.
C9_Scenario ==
    /\ response.kind = "search"
    /\ Len(response.documents) = 2
    /\ \A k \in DOMAIN response.documents :
          LET rows == {c \in response.candidates : c.document = response.documents[k]}
          IN  /\ Cardinality(rows) = 3
              /\ \A c \in rows : c.embedding # NoEmbedding
    /\ response.top_k_per_doc = 2
    /\ response.total_top_k = 3
    /\ response.query_failing = {}

\* C9: the result of search_multiple_documents holds at most top_k_per_doc
\* chunks of any one document and has min(total_top_k, sum over the
\* documents of min(top_k_per_doc, scored chunks)) entries; in the scenario
\* of two documents with three embedded chunks each, top_k_per_doc = 2 and
\* total_top_k = 3, it has exactly 3 entries, at most 2 from either document.
C9_TwoStageTopK ==
    IsSearch =>
        /\ \A k \in DOMAIN response.documents :
              Cardinality(ResultsFrom(response, response.documents[k]))
                  <= response.top_k_per_doc
        /\ Len(response.results) =
              Min(response.total_top_k, Shortlisted(response, response.documents))
        /\ C9_Scenario =>
              /\ Len(response.results) = 3
              /\ \A k \in DOMAIN response.documents :
                    Cardinality(ResultsFrom(response, response.documents[k])) <= 2

\* The scenario, with the best chunk of each document behind a worse one.
C9_Witness ==
    /\ C9_Scenario
    /\ Len(response.results) = 3
    /\ \E k \in DOMAIN response.documents :
          Cardinality(ResultsFrom(response, response.documents[k])) = 2
    /\ \A k \in DOMAIN response.results : response.results[k].chunk.chunk_index > 0

\* C10: no RAGService operation reads, puts into the prompt, links to a
\* chat message or modifies a document or chunk of another user: every
\* document linked to a chat message or named in the prompt belongs to the
\* user of the request, and so does every document a result comes from.
C10_OwnershipChecked ==
    /\ \A m \in ChatMessage : \A d \in m.selected_documents :
          Document[d].user = m.user
    /\ llm_prompt.sent =>
          \A k \in DOMAIN llm_prompt.documents :
             Document[llm_prompt.documents[k]].user = llm_prompt.user
    /\ response.kind = "relevant" =>
          \A k \in DOMAIN response.results :
             response.results[k].document_user = response.user

\* C11: a retrieval call during which the embedding of the query fails ends
\* in an error that reaches the caller.
C11_QueryFailureRaises ==
    (IsSearch /\ response.query_failing # {}) => response.raised

\* The chunks for which generate_chunk_embeddings calls the backend.
BackendCalls(document_chunks) ==
    {document_chunks[k].id :
        k \in {j \in DOMAIN document_chunks : document_chunks[j].embedding = NoEmbedding}}

\* The mapping generate_chunk_embeddings returns.
Embeddings(document_chunks, failing) ==
    LET done == Embedded(document_chunks, failing)
    IN  [id \in {done[k].id : k \in DOMAIN done} |->
            ChunkEmbedding(CHOOSE c \in {done[k] : k \in DOMAIN done} : c.id = id)]

\* The chunks of document d when the search of response r started.
CandidatesOf(r, d) == OrderByChunkIndex({c \in r.candidates : c.document = d})

\* The documents whose chunks the search of response r passed to
\* generate_chunk_embeddings.
EmbeddedDocuments(r) ==
    {d \in {r.documents[k] : k \in DOMAIN r.documents} :
        CandidatesOf(r, d) # << >> /\ d \notin r.query_failing}

\* C12: a chunk with a stored embedding is not sent to the backend and keeps
\* its vector; a chunk without one gets the computed vector stored; after a
\* call without failures a second call over the same chunks calls the
\* backend for no chunk and returns the same mapping.
C12_StoredEmbeddingsReused ==
    (response.kind = "search" /\ response.failing = {}) =>
        \A d \in EmbeddedDocuments(response) :
            LET before == CandidatesOf(response, d)
                after  == OrderByChunkIndex(ChunksOf(d))
            IN  /\ \A k \in DOMAIN before :
                      IF before[k].embedding # NoEmbedding
                      THEN /\ before[k].id \notin BackendCalls(before)
                           /\ Embeddings(before, {})[before[k].id] = before[k].embedding
                           /\ before[k] \in DocumentChunk
                      ELSE /\ before[k].id \in BackendCalls(before)
                           /\ [before[k] EXCEPT !.embedding =
                                  Embeddings(before, {})[before[k].id]] \in DocumentChunk
                /\ BackendCalls(after) = {}
                /\ Embeddings(after, {}) = Embeddings(before, {})

\* A search without failures over a document that had a chunk with and a
\* chunk without a stored embedding.
C12_Witness ==
    /\ response.kind = "search"
    /\ response.failing = {}
    /\ \E d \in EmbeddedDocuments(response) :
          /\ BackendCalls(CandidatesOf(response, d)) # {}
          /\ \E c \in response.candidates : c.document = d /\ c.embedding # NoEmbedding

\* C13: a chunk whose embedding fails is left out of the returned mapping
\* and stays without a stored embedding, every other chunk of the input is
\* in the mapping and stored, and no result is a chunk without an embedding
\* or with a vector other than the one of its content.
C13_FailedChunkSkipped ==
    response.kind = "search" =>
        /\ \A d \in EmbeddedDocuments(response) :
              LET before == CandidatesOf(response, d)
              IN  \A k \in DOMAIN before :
                     IF before[k].embedding = NoEmbedding /\ before[k].id \in response.failing
                     THEN /\ before[k].id \notin DOMAIN Embeddings(before, response.failing)
                          /\ before[k] \in DocumentChunk
                          /\ \A j \in DOMAIN response.results :
                                response.results[j].chunk.id # before[k].id
                     ELSE /\ before[k].id \in DOMAIN Embeddings(before, response.failing)
                          /\ [before[k] EXCEPT !.embedding = Embedding(before[k].content)]
                                \in DocumentChunk
        /\ \A j \in DOMAIN response.results :
              /\ response.results[j].chunk.embedding # NoEmbedding
              /\ response.results[j].chunk.embedding = Embedding(response.results[j].content)

\* A search in which the embedding of one chunk failed and a sibling chunk
\* of the same document was embedded and returned.
C13_Witness ==
    /\ response.kind = "search"
    /\ \E d \in EmbeddedDocuments(response) :
          /\ \E c \in response.candidates :
                c.document = d /\ c.embedding = NoEmbedding /\ c.id \in response.failing
          /\ \E j \in DOMAIN response.results :
                /\ response.results[j].document_id = d
                /\ response.results[j].chunk.id \in BackendCalls(CandidatesOf(response, d))

\* C14: every chunk search_relevant_chunks returns belongs to a selected
\* document that is flagged processed; the call does not raise, and it
\* returns the empty list when no selected document is processed.
C14_OnlyProcessedDocuments ==
    response.kind = "relevant" =>
        /\ ~response.raised
        /\ \A j \in DOMAIN response.results :
              /\ response.results[j].document_id \in response.selected
              /\ Document[response.results[j].document_id].is_processed
        /\ (\A d \in response.selected : ~Document[d].is_processed) =>
              response.results = << >>

\* A search over a processed and an unprocessed document of the user, both
\* with chunks, that returned chunks.
C14_Witness ==
    /\ response.kind = "relevant"
    /\ response.results # << >>
    /\ \E d \in response.selected :
          /\ ~Document[d].is_processed
          /\ Document[d].user = response.user
          /\ ChunksOf(d) # {}

(***************************************************************************)
(* Properties of the processing status (checked under Spec).               *)
(***************************************************************************)
\* C15: retrieval returns no chunk of a document whose processing_status is
\* 'failed'.
C15_FailedNotRetrieved ==
    \A d \in DOMAIN Document : \A query \in Queries :
        Document[d].processing_status = "failed" =>
            search_relevant_chunks(Document[d].user, query, {d}, DefaultTopK, {}, {})
                = << >>

\* C16: 'completed' and 'failed' are only entered from 'processing'.
C16_StatusLifecycle ==
    [][\A d \in DOMAIN Document :
          (/\ Document'[d].processing_status \in {"completed", "failed"}
           /\ Document'[d].processing_status # Document[d].processing_status)
              => Document[d].processing_status = "processing"]_vars

\* C17: a failure result of process_document_for_rag on a document of the
\* caller leaves the document's processing_status at 'failed'.
C17_FailureMarksFailed ==
    (response.kind = "process" /\ ~response.success /\ response.message # "not found") =>
        Document[response.document_id].processing_status = "failed"

(***************************************************************************)
(* Further properties of create_chunks (checked under SpecChunk).          *)
(***************************************************************************)
\* C18: a sentence with more tokens than chunk_size is the whole content of
\* some chunk.
C18_OversizedSentenceAlone ==
    cstate = "done" =>
        \A j \in DOMAIN SourceSentences :
            Len(Encode(SourceSentences[j])) > document.chunk_size =>
                \E i \in DOMAIN chunks : chunks[i].content = SourceSentences[j]

IsSuffix(p, t) == Len(p) <= Len(t) /\ SubSeq(t, Len(t) - Len(p) + 1, Len(t)) = p

\* The overlap text taken from chunk i when it was closed.
OverlapSeed(i) == _get_overlap_text(chunks[i].content, document.chunk_overlap)

\* Chunk i+1 starts with the overlap text taken from chunk i.
SeededBy(i) == IsPrefix(LStrip(OverlapSeed(i)) \o <<" ">>, chunks[i + 1].content)

\* C19: with chunk_overlap > 0 the text that seeds chunk i+1 is a suffix of
\* the content of chunk i, of at most chunk_overlap tokens, and the whole of
\* chunk i when chunk i has no more than chunk_overlap tokens.
C19_SeedIsSuffix ==
    (cstate = "done" /\ document.chunk_overlap > 0) =>
        \A i \in 1..(Len(chunks) - 1) :
            /\ SeededBy(i)
            /\ IsSuffix(OverlapSeed(i), chunks[i].content)
            /\ Len(Encode(OverlapSeed(i))) <= document.chunk_overlap
            /\ Len(Encode(chunks[i].content)) <= document.chunk_overlap =>
                  OverlapSeed(i) = chunks[i].content

(***************************************************************************)
(* The ask settings and the retrieval of a chat message.                   *)
(***************************************************************************)
\* The values a client may post as similarity_method.
PostedMethods == {"cosine", "l2", "dot"}

\* views.save_ask_settings: a similarity_method other than 'cosine' and
\* 'l2' is refused, else the user's ask settings are replaced.
SaveAskSettings(user, similarity_method) ==
    /\ IF similarity_method \notin SimilarityMethods
       THEN /\ Respond([kind |-> "settings", user |-> user, success |-> FALSE])
            /\ UNCHANGED UserSetting
       ELSE /\ UserSetting' = [UserSetting EXCEPT ![user] =
                                  [saved |-> TRUE, similarity_method |-> similarity_method]]
            /\ Respond([kind |-> "settings", user |-> user, success |-> TRUE])
    /\ UNCHANGED <<Document, DocumentChunk, next_chunk_id, req, runs>>
    /\ UNCHANGED <<chunker_vars, ChatMessage, llm_prompt, upload_settings>>

\* Two processed documents of the first user, every chunk embedded.
AskInit ==
    /\ \E n1 \in 0..MaxLazyChunks, n2 \in 0..MaxLazyChunks :
          \E c1 \in [1..n1 -> SearchContents], c2 \in [1..n2 -> SearchContents] :
             SearchDatabase(FirstUser, TRUE, TRUE,
                            c1, [k \in 1..n1 |-> TRUE], c2, [k \in 1..n2 |-> TRUE])
    /\ document = ChunkerDocument(1, 0)
    /\ text = << >>
    /\ chunks = << >>
    /\ cstate = "unused"
    /\ req = [w \in Workers |-> IdleReq]
    /\ response = NoResponse
    /\ runs = 0
    /\ ChatMessage = {}
    /\ llm_prompt = NoPrompt
    /\ UserSetting = [u \in Users |-> NoAskSettings]
    /\ upload_settings = [u \in Users |-> NoUploadSettings]

AskNext ==
    \/ \E user \in Users, similarity_method \in PostedMethods :
          SaveAskSettings(user, similarity_method)
    \/ \E user \in Users, query \in Queries, selected \in SUBSET DocumentIds,
          llm_ok \in BOOLEAN :
          SendRagMessage(user, query, selected, llm_ok)

SpecAsk == AskInit /\ [][AskNext]_vars

\* C20: the chunks a chat message refers to are scored with the similarity
\* function the user has saved in the ask settings.
C20_ConfiguredSimilarityUsed ==
    (/\ response.kind = "rag"
     /\ response.success
     /\ UserSetting[response.user].saved) =>
        \A k \in DOMAIN response.referenced_chunks :
            \E c \in DocumentChunk :
                /\ c.id = response.referenced_chunks[k].chunk_id
                /\ response.referenced_chunks[k].similarity =
                      Similarity(Embedding(llm_prompt.query), c,
                                 UserSetting[response.user].similarity_method)

(***************************************************************************)
(* The upload settings and the documents created from them.                *)
(***************************************************************************)
\* Limits of save_upload_settings.
MinChunkSize == 100
MaxAllowedChunkSize == 5000
MaxAllowedChunkOverlap == 1000

\* Defaults of upload_document.
DefaultChunkSize == 1000
DefaultChunkOverlap == 200

\* A value of the posted JSON: a number, or something int() raises on.
Number(n) == [is_number |-> TRUE, value |-> n]

NotANumber == [is_number |-> FALSE]

PostedSizes == {Number(n) : n \in {99, 100, 5000, 5001}} \cup {NotANumber}

PostedOverlaps == {Number(n) : n \in {-1, 0, 1000, 1001}} \cup {NotANumber}

\* The two range checks without the check of chunk_overlap against
\* chunk_size.
WithinLimits(chunk_size, chunk_overlap) ==
    /\ ~(chunk_size < MinChunkSize \/ chunk_size > MaxAllowedChunkSize)
    /\ ~(chunk_overlap < 0 \/ chunk_overlap > MaxAllowedChunkOverlap)

\* None of the three checks of save_upload_settings returns status 400.
ValidChunking(chunk_size, chunk_overlap) ==
    /\ ~(chunk_size < MinChunkSize \/ chunk_size > MaxAllowedChunkSize)
    /\ ~(chunk_overlap < 0 \/ chunk_overlap > MaxAllowedChunkOverlap)
    /\ ~(chunk_overlap >= chunk_size)

\* The calls of a sequence do not overlap: one starts when no other request
\* is being served.
AllIdle == \A w \in Workers : req[w].kind = "idle"

SettingsResponse(user, data, status) ==
    [kind |-> "upload_settings", user |-> user, success |-> status = 200,
     status |-> status, data |-> data, before |-> upload_settings]

\* views.save_upload_settings.  data is the posted JSON; complete tells
\* whether it has the four required fields, llm_known whether its
\* selected_llm is empty or names a row of LLMList.
SaveUploadSettings(user, data, complete, llm_known) ==
    /\ AllIdle
    /\ IF ~complete \/ ~llm_known
       THEN /\ Respond(SettingsResponse(user, data, 400))
            /\ UNCHANGED upload_settings
       ELSE IF ~data.chunk_size.is_number \/ ~data.chunk_overlap.is_number
       THEN /\ Respond(SettingsResponse(user, data, 500))
            /\ UNCHANGED upload_settings
       ELSE IF ~ValidChunking(data.chunk_size.value, data.chunk_overlap.value)
       THEN /\ Respond(SettingsResponse(user, data, 400))
            /\ UNCHANGED upload_settings
       ELSE /\ upload_settings' =
                  [upload_settings EXCEPT ![user] =
                      [saved         |-> TRUE,
                       chunk_size    |-> data.chunk_size.value,
                       chunk_overlap |-> data.chunk_overlap.value]]
            /\ Respond(SettingsResponse(user, data, 200))
    /\ UNCHANGED <<Document, DocumentChunk, next_chunk_id, req, runs>>
    /\ UNCHANGED <<chunker_vars, ChatMessage, llm_prompt, UserSetting>>

\* settings.get('chunk_size', 1000), settings.get('chunk_overlap', 200) of
\* upload_document; a user without a UserSetting row gets the same defaults.
StoredUploadSettings(user) ==
    IF upload_settings[user].saved
    THEN [chunk_size    |-> upload_settings[user].chunk_size,
          chunk_overlap |-> upload_settings[user].chunk_overlap]
    ELSE [chunk_size |-> DefaultChunkSize, chunk_overlap |-> DefaultChunkOverlap]

\* views.upload_document with the settings the user has stored.
UploadWithSettings(w, user, file) ==
    /\ AllIdle
    /\ UploadDocument(w, user, file, StoredUploadSettings(user))

\* The file uploaded under the stored settings.
SettingsFile == [name |-> "two.txt", text |-> <<"a", ".", " ", "a">>]

\* The requests posted to save_upload_settings: every pair of values in a
\* request that is otherwise in order, and one request each that lacks a
\* field or names an unknown LLM.
SettingsRequests ==
    {[data |-> [chunk_size |-> chunk_size, chunk_overlap |-> chunk_overlap],
      complete |-> TRUE, llm_known |-> TRUE] :
        chunk_size \in PostedSizes, chunk_overlap \in PostedOverlaps}
    \cup {[data |-> [chunk_size |-> Number(100), chunk_overlap |-> Number(0)],
           complete |-> FALSE, llm_known |-> TRUE],
          [data |-> [chunk_size |-> Number(100), chunk_overlap |-> Number(0)],
           complete |-> TRUE, llm_known |-> FALSE]}

UploadNext ==
    \/ \E user \in Users, request \in SettingsRequests :
          SaveUploadSettings(user, request.data, request.complete, request.llm_known)
    \/ \E w \in Workers, user \in Users : UploadWithSettings(w, user, SettingsFile)
    \/ \E w \in Workers : GetUploaded(w)
    \/ \E w \in Workers, extracted \in BOOLEAN : MarkProcessing(w, extracted)
    \/ \E w \in Workers : DeleteOldChunks(w)
    \/ \E w \in Workers : InsertChunk(w)
    \/ \E w \in Workers : CompleteProcessing(w)
    \/ \E w \in Workers : FailProcessing(w)
    \/ \E w \in Workers : LoadChunks(w)
    \/ \E w \in Workers : EmbedChunk(w)

SpecUpload == ProcInit /\ [][UploadNext]_vars

\* C21: every document has 100 <= chunk_size <= 5000, 0 <= chunk_overlap
\* <= 1000 and chunk_overlap < chunk_size, so has every document a
\* processing run has loaded, and a save_upload_settings request outside
\* these bounds fails and leaves the stored settings as they were.
C21_ValidChunkingConfiguration ==
    /\ \A d \in DOMAIN Document :
          /\ 100 <= Document[d].chunk_size /\ Document[d].chunk_size <= 5000
          /\ 0 <= Document[d].chunk_overlap /\ Document[d].chunk_overlap <= 1000
          /\ Document[d].chunk_overlap < Document[d].chunk_size
    /\ \A w \in Workers :
          req[w].pc \in {"delete", "insert", "complete", "except"} =>
              /\ 100 <= req[w].document.chunk_size /\ req[w].document.chunk_size <= 5000
              /\ 0 <= req[w].document.chunk_overlap
              /\ req[w].document.chunk_overlap <= 1000
              /\ req[w].document.chunk_overlap < req[w].document.chunk_size
    /\ (/\ response.kind = "upload_settings"
        /\ response.data.chunk_size.is_number
        /\ response.data.chunk_overlap.is_number
        /\ \/ response.data.chunk_size.value < 100
           \/ response.data.chunk_size.value > 5000
           \/ response.data.chunk_overlap.value < 0
           \/ response.data.chunk_overlap.value > 1000
           \/ response.data.chunk_overlap.value >= response.data.chunk_size.value) =>
          /\ ~response.success
          /\ upload_settings = response.before

\* A request with chunk_overlap = chunk_size inside both ranges is refused
\* after the user has saved settings other than the defaults and a document
\* uploaded under them has been chunked.
C21_Witness ==
    /\ response.kind = "upload_settings"
    /\ ~response.success
    /\ response.data.chunk_size = Number(100)
    /\ response.data.chunk_overlap = Number(1000)
    /\ response.before[response.user].saved
    /\ \E d \in DOMAIN Document :
          /\ Document[d].user = response.user
          /\ Document[d].chunk_size = 5000
          /\ Document[d].chunk_overlap = 1000
          /\ Document[d].processing_status = "completed"

(***************************************************************************)
(* Properties of get_chunk_context (checked under SpecSearch).             *)
(***************************************************************************)
\* The stored chunks of the document of chunk c, in chunk_index order.
Siblings(c) == OrderByChunkIndex({r \in DocumentChunk : r.document = c.document})

\* The position of chunk c among its siblings, from 0.
PositionOf(c) == Cardinality({r \in DocumentChunk : /\ r.document = c.document
                                                    /\ r.chunk_index < c.chunk_index})

\* C22: the context of a chunk at position p of its document is made of the
\* chunks of that document at the positions max(0, p - N) .. min(last, p + N),
\* in increasing chunk_index order, each labelled with its chunk_index.
C22_ContextWindow ==
    response.kind = "context" =>
        LET rows  == Siblings(response.chunk)
            p     == PositionOf(response.chunk)
            N     == response.context_window
            first == Max(0, p - N)
            last  == Min(Len(rows) - 1, p + N)
        IN  /\ response.context =
                  JoinParts([k \in 1..(last - first + 1) |-> ContextPart(rows[first + k])])
            /\ \A k \in 1..(last - first) :
                  rows[first + k].chunk_index < rows[first + k + 1].chunk_index

\* The context of the last of three chunks with a window of one, asked for
\* with an instance loaded before the embedding was stored, while the other
\* document has chunks too.
C22_Witness ==
    /\ response.kind = "context"
    /\ response.context_window = 1
    /\ Len(Siblings(response.chunk)) = 3
    /\ PositionOf(response.chunk) = 2
    /\ response.chunk \notin DocumentChunk
    /\ \E r \in DocumentChunk : r.document # response.chunk.document
    /\ response.context =
          ContextPart(Siblings(response.chunk)[2]) \o <<"\n", "\n">>
              \o ContextPart(Siblings(response.chunk)[3])

(***************************************************************************)
(* The similarity functions on their own and the ranking of the chunks of  *)
(* one document.                                                           *)
(***************************************************************************)
MaxCoord == 2

\* The vectors handed to calculate_cosine_similarity.
Vectors == {<<x, y>> : x \in 0..MaxCoord, y \in 0..MaxCoord}

\* Chunk contents and queries with the embeddings [1,0], [0,1] and [1,1].
VectorContents == {<<"a">>, <<"k">>, <<"a", "k">>}

\* One document of the first user with up to MaxLazyChunks embedded chunks,
\* and a second document without chunks.
SimilarityInit ==
    /\ \E n1 \in 0..MaxLazyChunks : \E c1 \in [1..n1 -> VectorContents] :
          SearchDatabase(FirstUser, TRUE, TRUE, c1, [k \in 1..n1 |-> TRUE], << >>, << >>)
    /\ document = ChunkerDocument(1, 0)
    /\ text = << >>
    /\ chunks = << >>
    /\ cstate = "unused"
    /\ req = [w \in Workers |-> IdleReq]
    /\ response = NoResponse
    /\ runs = 0
    /\ ChatMessage = {}
    /\ llm_prompt = NoPrompt
    /\ UserSetting = [u \in Users |-> NoAskSettings]
    /\ upload_settings = [u \in Users |-> NoUploadSettings]

\* embedding_service.calculate_cosine_similarity(vec1, vec2)
CalculateCosineSimilarity(vec1, vec2) ==
    /\ runs < MaxSearches
    /\ Respond([kind |-> "cosine", vec1 |-> vec1, vec2 |-> vec2, raised |-> FALSE,
                similarity |-> calculate_cosine_similarity(vec1, vec2)])
    /\ runs' = runs + 1
    /\ UNCHANGED <<db_vars, req>>
    /\ UNCHANGED <<chunker_vars, chat_vars>>

\* embedding_service.search_similar_chunks(query, list(chunks of document
\* d), top_k, similarity_method), every chunk having its embedding stored.
SearchSimilarChunks(query, d, top_k, similarity_method) ==
    /\ runs < MaxSearches
    /\ d \in DOMAIN Document
    /\ Respond([kind              |-> "similar",
                query             |-> query,
                document_id       |-> d,
                top_k             |-> top_k,
                similarity_method |-> similarity_method,
                results           |-> search_similar_chunks(query,
                                          OrderByChunkIndex(ChunksOf(d)), top_k,
                                          similarity_method, {})])
    /\ runs' = runs + 1
    /\ UNCHANGED <<db_vars, req>>
    /\ UNCHANGED <<chunker_vars, chat_vars>>

SimilarityNext ==
    \/ \E vec1 \in Vectors, vec2 \in Vectors : CalculateCosineSimilarity(vec1, vec2)
    \/ \E query \in VectorContents, d \in DocumentIds, top_k \in 0..MaxTopK,
          similarity_method \in SimilarityMethods :
          SearchSimilarChunks(query, d, top_k, similarity_method)

SpecSimilarity == SimilarityInit /\ [][SimilarityNext]_vars

\* A cosine search with query vector [1,0] over a document whose two chunks
\* have the vectors [1,0] and [0,1], in either order.
C23_Scenario ==
    /\ response.kind = "similar"
    /\ response.similarity_method = "cosine"
    /\ Embedding(response.query) = <<1, 0>>
    /\ {c.embedding : c \in ChunksOf(response.document_id)} = {<<1, 0>>, <<0, 1>>}
    /\ Cardinality(ChunksOf(response.document_id)) = 2
    /\ response.top_k >= 2

\* C23: the cosine similarity of [1,0] with [1,0] is 1.0 and with [0,1] is
\* 0.0, the ranked result of that scenario puts the chunk with vector [1,0]
\* strictly ahead, and the cosine similarity is 0.0, without an error,
\* whenever one of the vectors has zero norm.
C23_CosineScenario ==
    /\ response.kind = "cosine" =>
          /\ ~response.raised
          /\ (response.vec1 = <<1, 0>> /\ response.vec2 = <<1, 0>>) =>
                response.similarity = Scale
          /\ (response.vec1 = <<1, 0>> /\ response.vec2 = <<0, 1>>) =>
                response.similarity = 0
          /\ (Dot(response.vec1, response.vec1) = 0 \/ Dot(response.vec2, response.vec2) = 0) =>
                response.similarity = 0
    /\ C23_Scenario =>
          /\ Len(response.results) = 2
          /\ response.results[1].chunk.embedding = <<1, 0>>
          /\ response.results[1].similarity = Scale
          /\ response.results[2].chunk.embedding = <<0, 1>>
          /\ response.results[2].similarity = 0
          /\ response.results[1].similarity > response.results[2].similarity

\* The scenario with the chunk of vector [0,1] stored first.
C23_Witness ==
    /\ C23_Scenario
    /\ \E c \in ChunksOf(response.document_id) :
          c.chunk_index = 0 /\ c.embedding = <<0, 1>>
    /\ response.results[1].chunk.chunk_index = 1

(***************************************************************************)
(* Further properties of the retrieval (checked under SpecSearch).         *)
(***************************************************************************)
\* The number of get_embedding(query) calls of a search over documents: one
\* per search_similar_chunks call, that is, per document that has chunks.
QueryEmbeddingCalls(documents) == Cardinality(Searched(documents))

\* C24: during one retrieval call over candidate documents that have chunks
\* the embedding backend is called for the query text exactly once.
C24_QueryEmbeddedOnce ==
    (IsSearch /\ Searched(response.documents) # {}) =>
        QueryEmbeddingCalls(response.documents) = 1

\* The place of document d in the list the search iterates over.
IterationIndex(r, d) == CHOOSE k \in DOMAIN r.documents : r.documents[k] = d

\* C25: of two results with the same similarity, the one whose document
\* comes first in the iteration order is first, and of two such results of
\* the same document the one with the smaller chunk_index is first.
C25_StableRanking ==
    IsSearch =>
        \A i \in DOMAIN response.results : \A j \in DOMAIN response.results :
            (i < j /\ response.results[i].similarity = response.results[j].similarity) =>
                \/ IterationIndex(response, response.results[i].document_id)
                      < IterationIndex(response, response.results[j].document_id)
                \/ /\ response.results[i].document_id = response.results[j].document_id
                   /\ response.results[i].chunk.chunk_index
                         < response.results[j].chunk.chunk_index

\* A search whose result holds chunks of both documents with the same
\* similarity, behind a better chunk that was stored after one of them.
C25_Witness ==
    /\ response.kind = "search"
    /\ Len(response.results) = 3
    /\ response.results[1].similarity > response.results[2].similarity
    /\ response.results[1].document_id = response.results[2].document_id
    /\ response.results[1].chunk.chunk_index > response.results[2].chunk.chunk_index
    /\ response.results[2].similarity = response.results[3].similarity
    /\ response.results[2].document_id # response.results[3].document_id

(***************************************************************************)
(* Sentences and chunks (checked under SpecChunk).                         *)
(***************************************************************************)
\* The non-empty sentences a chunk content is made of.
SentencesOf(content) ==
    LET stripped == [i \in DOMAIN SplitSentences(content) |->
                        Strip(SplitSentences(content)[i])]
    IN  SelectSeq(stripped, LAMBDA f : f # << >>)

\* The sentences of chunks 1..n, chunk after chunk.
RECURSIVE ChunkSentences(_)
ChunkSentences(n) ==
    IF n = 0 THEN << >>
    ELSE ChunkSentences(n - 1) \o SentencesOf(chunks[n].content)

RECURSIVE TokenSum(_)
TokenSum(sentences) ==
    IF sentences = << >> THEN 0
    ELSE Len(Encode(Head(sentences))) + TokenSum(Tail(sentences))

\* C26: with chunk_overlap = 0 the sentences of the chunks, read in
\* chunk_index order, are the non-empty sentences of the preprocessed text,
\* each once and in the original order, and the token count recorded for a
\* chunk is the sum of the token counts of its sentences.
C26_SentencesPreserved ==
    (cstate = "done" /\ document.chunk_overlap = 0) =>
        /\ ChunkSentences(Len(chunks)) = SourceSentences
        /\ \A i \in DOMAIN chunks :
              chunks[i].metadata.tokens = TokenSum(SentencesOf(chunks[i].content))

\* Three sentences packed without overlap into two chunks, one of them
\* holding two sentences.
C26_Witness ==
    /\ cstate = "done"
    /\ document.chunk_overlap = 0
    /\ Len(SourceSentences) = 3
    /\ Len(chunks) = 2
    /\ Len(SentencesOf(chunks[1].content)) = 2
    /\ chunks[2].content = SourceSentences[3]

(***************************************************************************)
(* Operations made one after the other: an operation starts when no other  *)
(* request is being served.                                                *)
(***************************************************************************)
\* views.upload_document
UploadInTurn(w, u, file, settings) ==
    /\ AllIdle
    /\ UploadDocument(w, u, file, settings)

\* views.process_document_for_rag
ProcessInTurn(w, u, d) ==
    /\ AllIdle
    /\ ProcessRequest(w, u, d)

\* views.delete_document_rag_data
DeleteInTurn(w, u, d) ==
    /\ AllIdle
    /\ DeleteRequest(w, u, d)

\* RAGService(user).search_relevant_chunks(query, selected_documents), as
\* send_rag_message calls it.
RetrieveInTurn(user, query, selected_documents) ==
    /\ AllIdle
    /\ selected_documents \subseteq DOMAIN Document
    /\ LET documents == ProcessedDocuments(user, selected_documents)
       IN  \E query_failing \in SUBSET Searched(documents),
              failing \in SUBSET Unembedded(documents) :
              /\ Respond(SearchResponse("relevant", user, query, selected_documents,
                                        documents, DefaultTopKPerDoc, DefaultTopK, "cosine",
                                        query_failing, failing))
              /\ DocumentChunk' = AfterSearch(documents, query_failing, failing)
    /\ UNCHANGED <<Document, next_chunk_id, req, runs>>
    /\ UNCHANGED <<chunker_vars, chat_vars>>

SequenceNext ==
    \/ \E w \in Workers, u \in Users, file \in UploadFiles, settings \in UploadSettings :
          UploadInTurn(w, u, file, settings)
    \/ \E w \in Workers : GetUploaded(w)
    \/ \E w \in Workers, u \in Users, d \in DocumentIds : ProcessInTurn(w, u, d)
    \/ \E w \in Workers, extracted \in BOOLEAN : MarkProcessing(w, extracted)
    \/ \E w \in Workers : DeleteOldChunks(w)
    \/ \E w \in Workers : InsertChunk(w)
    \/ \E w \in Workers : CompleteProcessing(w)
    \/ \E w \in Workers : FailProcessing(w)
    \/ \E w \in Workers : LoadChunks(w)
    \/ \E w \in Workers : EmbedChunk(w)
    \/ \E w \in Workers, u \in Users, d \in DocumentIds : DeleteInTurn(w, u, d)
    \/ \E w \in Workers : DeleteDataChunks(w)
    \/ \E w \in Workers : ResetDocument(w)
    \/ \E user \in Users, query \in Queries, selected \in SUBSET DocumentIds :
          RetrieveInTurn(user, query, selected)

SpecSequence == ProcInit /\ [][SequenceNext]_vars

\* C27: between two operations of a sequence, a document whose
\* processing_status is 'completed' has is_processed = True, total_chunks
\* equal to the number of its stored chunks, and chunks with the chunk_index
\* values 0 .. total_chunks - 1.
C27_CompletedIsConsistent ==
    AllIdle =>
        \A d \in DOMAIN Document :
            Document[d].processing_status = "completed" =>
                /\ Document[d].is_processed
                /\ Document[d].total_chunks = Cardinality(ChunksOf(d))
                /\ {c.chunk_index : c \in ChunksOf(d)} = 0..(Document[d].total_chunks - 1)

\* A document completed with two chunks by a second run, after its data had
\* been deleted, and searched since.
C27_Witness ==
    /\ AllIdle
    /\ runs = MaxRuns
    /\ response.kind = "relevant"
    /\ response.results # << >>
    /\ \E d \in DOMAIN Document :
          /\ Document[d].processing_status = "completed"
          /\ Document[d].total_chunks = 2
          /\ \A c \in ChunksOf(d) : c.id > 2

\* The step is taken by a delete_document_data call.
DeleteStep ==
    \/ \E w \in Workers : req[w].kind = "delete" \/ req'[w].kind = "delete"
    \/ response'.kind = "delete"

\* C28: a delete_document_data call changes no document and no chunk other
\* than those of its own document; when it returns success its document has
\* no chunks, is_processed = False, processing_status = 'pending' and
\* total_chunks = 0; for a document id that does not exist or belongs to
\* another user it returns success = False and changes nothing.
C28_DeleteFrame ==
    [][DeleteStep =>
          /\ (response'.kind = "delete" /\ ~response'.success) =>
                /\ Document' = Document
                /\ DocumentChunk' = DocumentChunk
          /\ \A w \in Workers : req[w].kind = "delete" =>
                /\ Document[req[w].document.id].user = req[w].user
                /\ \A d \in DOMAIN Document :
                      d # req[w].document.id =>
                          /\ Document'[d] = Document[d]
                          /\ ChunksOf(d)' = ChunksOf(d)
          /\ \A w \in Workers : (req[w].kind = "delete" /\ response'.kind = "delete") =>
                /\ response'.success
                /\ ChunksOf(req[w].document.id)' = {}
                /\ ~Document'[req[w].document.id].is_processed
                /\ Document'[req[w].document.id].processing_status = "pending"
                /\ Document'[req[w].document.id].total_chunks = 0
          /\ \A w \in Workers : req'[w].kind = "delete" =>
                /\ Document' = Document
                /\ (req[w].kind # "delete" => DocumentChunk' = DocumentChunk)]_vars

\* The data of a completed document with two chunks has been deleted while
\* the other document keeps its chunks.
C28_Witness ==
    /\ response.kind = "delete"
    /\ response.success
    /\ runs = MaxRuns
    /\ ChunksOf(response.document_id) = {}
    /\ next_chunk_id > 3
    /\ \E d \in DOMAIN Document :
          /\ d # response.document_id
          /\ Document[d].processing_status = "completed"
          /\ ChunksOf(d) # {}

(***************************************************************************)
(* Deleted chunks (checked under Spec).                                    *)
(***************************************************************************)
\* The primary keys in the chunk table.
StoredIds == {c.id : c \in DocumentChunk}

\* C29: a chunk that was deleted is not stored again: a row whose key is not
\* in the table only enters it through DocumentChunk.objects.create, which
\* takes the next key, never through the chunk.save() of an embedding pass.
C29_DeletedStayDeleted ==
    [][StoredIds' \ StoredIds # {} => next_chunk_id' > next_chunk_id]_vars

(***************************************************************************)
(* Searches over documents of which one may hold a chunk whose stored      *)
(* vector has another dimension than the vectors of the backend (it was    *)
(* stored by another embedding model): the search of that document raises. *)
(***************************************************************************)
MismatchedEmbedding == <<1, 0, 0>>

\* Row c, with the mismatched vector when its key is in bad.
WithMismatch(c, bad) ==
    IF c.id \in bad THEN [c EXCEPT !.embedding = MismatchedEmbedding] ELSE c

FaultInit ==
    /\ \E n1 \in 0..MaxLazyChunks, n2 \in 0..MaxLazyChunks :
          \E c1 \in [1..n1 -> SearchContents], c2 \in [1..n2 -> SearchContents],
             bad \in SUBSET (1..(n1 + n2)) :
             /\ Cardinality(bad) <= 1
             /\ Document = <<SearchDocument(1, FirstUser, TRUE, c1),
                             SearchDocument(2, FirstUser, TRUE, c2)>>
             /\ DocumentChunk =
                   {WithMismatch(c, bad) :
                       c \in ChunkRows(1, 1, c1, [k \in 1..n1 |-> TRUE])
                             \cup ChunkRows(2, n1 + 1, c2, [k \in 1..n2 |-> TRUE])}
             /\ next_chunk_id = n1 + n2 + 1
    /\ document = ChunkerDocument(1, 0)
    /\ text = << >>
    /\ chunks = << >>
    /\ cstate = "unused"
    /\ req = [w \in Workers |-> IdleReq]
    /\ response = NoResponse
    /\ runs = 0
    /\ ChatMessage = {}
    /\ llm_prompt = NoPrompt
    /\ UserSetting = [u \in Users |-> NoAskSettings]
    /\ upload_settings = [u \in Users |-> NoUploadSettings]

FaultNext ==
    \/ \E query \in Queries, selected \in SUBSET DocumentIds,
          top_k_per_doc \in 0..MaxTopK, total_top_k \in 0..MaxTopK,
          similarity_method \in SimilarityMethods :
          SearchMultipleDocuments(query, selected, top_k_per_doc, total_top_k,
                                  similarity_method)
    \/ \E user \in Users, query \in Queries, selected \in SUBSET DocumentIds,
          top_k \in {1, DefaultTopK} :
          SearchRelevantChunks(user, query, selected, top_k)

SpecFault == FaultInit /\ [][FaultNext]_vars

\* The search of document d met a vector of the wrong dimension.
Mismatched(r, d) ==
    \E c \in r.candidates : c.document = d /\ Len(c.embedding) = Len(MismatchedEmbedding)

\* The documents of the search whose search met no such vector.
Sound(r) == SelectSeq(r.documents, LAMBDA d : ~Mismatched(r, d))

\* C30: a search in which the embedding of the query did not fail does not
\* raise, returns no chunk of a document whose search raised, and returns
\* of the other documents what a search over them alone returns: the best
\* top_k_per_doc chunks of each, merged in descending order and cut to
\* total_top_k.
C30_ErrorDropsOneDocument ==
    (IsSearch /\ response.query_failing = {}) =>
        /\ ~response.raised
        /\ \A k \in DOMAIN response.results :
              ~Mismatched(response, response.results[k].document_id)
        /\ Len(response.results) =
              Min(response.total_top_k, Shortlisted(response, Sound(response)))
        /\ \A k \in DOMAIN Sound(response) :
              Shortlisted(response, Sound(response)) <= response.total_top_k =>
                  Cardinality(ResultsFrom(response, Sound(response)[k])) =
                      Min(response.top_k_per_doc,
                          Cardinality(ScoredChunks(response, Sound(response)[k])))
        /\ \A i \in DOMAIN response.results : \A j \in DOMAIN response.results :
              i < j => response.results[i].similarity >= response.results[j].similarity

\* The search of the first document of the iteration raised and the two
\* chunks of the second one were returned, the better one first.
C30_Witness ==
    /\ response.kind = "search"
    /\ response.query_failing = {}
    /\ Len(response.documents) = 2
    /\ Mismatched(response, response.documents[1])
    /\ \E c \in response.candidates :
          c.document = response.documents[1] /\ Len(c.embedding) = 2
    /\ Len(response.results) = 2
    /\ response.results[1].similarity > response.results[2].similarity
    /\ response.results[1].chunk.chunk_index = 1

=============================================================================
